---- MODULE Spec2Model ----
(***************************************************************************)
(* A model of the rws WebSocket server: the frame decoder                  *)
(* (Reader::read_frame), the message reassembler (Fragments::accumulate),  *)
(* the close-reply constructor (Frame::new_close_reply) and the echo       *)
(* dispatch loop (Handler::handle_connection).                             *)
(*                                                                         *)
(* Bytes are integers 0..255, byte strings are sequences of bytes.         *)
(***************************************************************************)
EXTENDS Integers, Sequences, FiniteSets, TLC

\* ------------------------------------------------------------------ bounds
\* Longest payload of one data frame the client sends.
MaxLen == 2
\* Number of frames the client sends before the input ends.
MaxFrames == 3
\* Number of connections main accepts.
MaxConns == 2
\* Number of frames each of these connections receives.
MaxTaskFrames == 2

\* ----------------------------------------------------------------- opcodes
\* frame.rs, enum Opcode
Continuation == 0
Text == 1
Binary == 2
Close == 8
Ping == 9
Pong == 10

\* A mutant of ValidOpcodes: try_from lets every value through.
ValidOpcodes_any == 0..15

\* Opcode::try_from: the values that map to an Opcode; every other value is
\* Err(InvalidOpCode).
ValidOpcodes == {Continuation, Text, Binary, Close, Ping, Pong}

\* A mutant of is_control: a Ping is not a control frame.
is_control_ping(opcode) == opcode \in {Close, Pong}

\* Opcode::is_control
is_control(opcode) == opcode \in {Close, Ping, Pong}

\* ----------------------------------------------------------------- helpers
Last(s) == s[Len(s)]

\* s[from..] of Rust, from counted from 0
SliceFrom(s, from) == SubSeq(s, from + 1, Len(s))

\* s[..to] of Rust
SliceTo(s, to) == SubSeq(s, 1, to)

Min(a, b) == IF a <= b THEN a ELSE b

\* u16::from_be_bytes / u64::from_be_bytes
RECURSIVE from_be_bytes(_)
from_be_bytes(bs) ==
    IF bs = <<>> THEN 0
    ELSE 256 * from_be_bytes(SliceTo(bs, Len(bs) - 1)) + Last(bs)

\* u16::to_be_bytes
to_be_bytes16(code) == <<(code \div 256) % 256, code % 256>>

\* a ^ b on bytes
RECURSIVE Xor(_, _)
Xor(a, b) ==
    IF a = 0 THEN b
    ELSE IF b = 0 THEN a
    ELSE ((a + b) % 2) + 2 * Xor(a \div 2, b \div 2)

\* ------------------------------------------------------------------- UTF-8
\* Results of core::str::from_utf8: ok, or the Utf8Error's valid_up_to and
\* error_len (0 stands for error_len() == None: the input ends inside a code
\* point).
Utf8Ok(n) == [ok |-> TRUE, valid_up_to |-> n, error_len |-> 0]
Utf8Err(n, len) == [ok |-> FALSE, valid_up_to |-> n, error_len |-> len]

\* A continuation byte 10xxxxxx
IsCont(b) == b >= 128 /\ b <= 191

\* UTF8_CHAR_WIDTH of the standard library
Utf8CharWidth(b) ==
    IF b < 128 THEN 1
    ELSE IF b >= 194 /\ b <= 223 THEN 2
    ELSE IF b >= 224 /\ b <= 239 THEN 3
    ELSE IF b >= 240 /\ b <= 244 THEN 4
    ELSE 0

\* The second byte of a multi-byte code point (no overlong forms, no
\* surrogates, nothing above U+10FFFF).
SecondOk(first, b) ==
    CASE first = 224 -> b >= 160 /\ b <= 191
      [] first = 237 -> b >= 128 /\ b <= 159
      [] first = 240 -> b >= 144 /\ b <= 191
      [] first = 244 -> b >= 128 /\ b <= 143
      [] OTHER -> IsCont(b)

\* run_utf8_validation from byte i (counted from 1) of s
RECURSIVE Utf8From(_, _)
Utf8From(s, i) ==
    IF i > Len(s) THEN Utf8Ok(Len(s))
    ELSE LET first == s[i]
             w == Utf8CharWidth(first)
             rem == Len(s) - i
         IN IF w = 0 THEN Utf8Err(i - 1, 1)
            ELSE IF w = 1 THEN Utf8From(s, i + 1)
            ELSE IF rem < 1 THEN Utf8Err(i - 1, 0)
            ELSE IF ~SecondOk(first, s[i + 1]) THEN Utf8Err(i - 1, 1)
            ELSE IF w = 2 THEN Utf8From(s, i + 2)
            ELSE IF rem < 2 THEN Utf8Err(i - 1, 0)
            ELSE IF ~IsCont(s[i + 2]) THEN Utf8Err(i - 1, 2)
            ELSE IF w = 3 THEN Utf8From(s, i + 3)
            ELSE IF rem < 3 THEN Utf8Err(i - 1, 0)
            ELSE IF ~IsCont(s[i + 3]) THEN Utf8Err(i - 1, 3)
            ELSE Utf8From(s, i + 4)

\* std::str::from_utf8 / simdutf8::basic::from_utf8
from_utf8(s) == Utf8From(s, 1)

\* simdutf8::basic::from_utf8(..).is_ok()
is_utf8(s) == from_utf8(s).ok

\* utf8::decode: Ok(text), or Incomplete{valid_prefix, incomplete_suffix}, or
\* Invalid{..}
utf8_decode(input) ==
    LET r == from_utf8(input)
    IN IF r.ok
       THEN [tag |-> "Ok", valid_prefix |-> input, incomplete_suffix |-> <<>>]
       ELSE IF r.error_len = 0
       THEN [tag |-> "Incomplete",
             valid_prefix |-> SliceTo(input, r.valid_up_to),
             incomplete_suffix |-> SliceFrom(input, r.valid_up_to)]
       ELSE [tag |-> "Invalid",
             valid_prefix |-> SliceTo(input, r.valid_up_to),
             incomplete_suffix |-> <<>>]

\* utf8::Incomplete::try_complete on the stashed bytes `buffer` (at most 4)
\* and the new input.  some = FALSE is None: still incomplete, `buffer` holds
\* the stash grown by the input.  Otherwise ok says whether the completed
\* bytes `text` are valid, and `rest` is the input left over.
try_complete(buffer, input) ==
    LET initial == Len(buffer)
        copied == Min(4 - initial, Len(input))
        spliced == buffer \o SliceTo(input, copied)
        r == from_utf8(spliced)
    IN IF r.ok
       THEN [some |-> TRUE, ok |-> TRUE, text |-> spliced,
             rest |-> SliceFrom(input, copied), buffer |-> <<>>]
       ELSE IF r.valid_up_to > 0
       THEN [some |-> TRUE, ok |-> TRUE, text |-> SliceTo(spliced, r.valid_up_to),
             rest |-> SliceFrom(input, r.valid_up_to - initial), buffer |-> <<>>]
       ELSE IF r.error_len > 0
       THEN [some |-> TRUE, ok |-> FALSE, text |-> SliceTo(spliced, r.error_len),
             rest |-> SliceFrom(input, r.error_len - initial), buffer |-> <<>>]
       ELSE [some |-> FALSE, ok |-> FALSE, text |-> <<>>,
             rest |-> <<>>, buffer |-> spliced]

\* ------------------------------------------------------------------ frames
\* struct Frame
Frame(fin, opcode, data) ==
    [fin |-> fin, opcode |-> opcode, len |-> Len(data), data |-> data]

\* Frame::new
new(opcode, data) == Frame(TRUE, opcode, data)

NoFrame == Frame(FALSE, Continuation, <<>>)

\* Result<Option<Frame>, FrameError> and Result<Frame, FrameError>
Err(e) == [tag |-> "Err", err |-> e, frame |-> NoFrame]
OkNone == [tag |-> "None", err |-> "", frame |-> NoFrame]
OkSome(f) == [tag |-> "Some", err |-> "", frame |-> f]

\* ------------------------------------------------------------- close codes
\* impl From<u16> for CloseCode (the variant's name; the payload of
\* Reserved/Library/Bad is the code itself)
CloseCodeFrom(code) ==
    CASE code = 1000 -> "Normal"
      [] code = 1001 -> "Away"
      [] code = 1002 -> "Protocol"
      [] code = 1003 -> "Unsupported"
      [] code = 1005 -> "Status"
      [] code = 1006 -> "Abnormal"
      [] code = 1007 -> "Invalid"
      [] code = 1008 -> "Policy"
      [] code = 1009 -> "Size"
      [] code = 1010 -> "Extension"
      [] code = 1011 -> "Error"
      [] code = 1012 -> "Restart"
      [] code = 1013 -> "Again"
      [] code = 1015 -> "Tls"
      [] code >= 1 /\ code <= 999 -> "Bad"
      [] code >= 1016 /\ code <= 2999 -> "Reserved"
      [] code >= 3000 /\ code <= 4999 -> "Library"
      [] OTHER -> "Bad"

\* A mutant of is_allowed: 1005 (Status) is let through.
is_allowed_status(variant) ==
    variant \notin {"Bad", "Reserved", "Abnormal", "Tls"}

\* CloseCode::is_allowed
is_allowed(variant) ==
    variant \notin {"Bad", "Reserved", "Status", "Abnormal", "Tls"}

\* Frame::close
close(code, reason) == Frame(TRUE, Close, to_be_bytes16(code) \o reason)

\* A mutant of new_close_reply: the reason is validated with the code bytes
\* still in front of it, and a 1-byte payload is echoed.
new_close_reply_whole(data) ==
    IF Len(data) = 0 THEN OkSome(new(Close, data))
    ELSE IF Len(data) = 1 THEN OkSome(new(Close, data))
    ELSE LET code == CloseCodeFrom(from_be_bytes(SliceTo(data, 2)))
         IN IF ~is_allowed(code) THEN OkSome(close(1002, SliceFrom(data, 2)))
            ELSE IF Len(data) > 2 /\ ~is_utf8(data)
            THEN Err("InvalidUTF8")
            ELSE OkSome(new(Close, data))

\* Frame::new_close_reply
new_close_reply(data) ==
    IF Len(data) = 0 THEN OkSome(new(Close, data))
    ELSE IF Len(data) = 1 THEN Err("InvalidCloseFrame")
    ELSE LET code == CloseCodeFrom(from_be_bytes(SliceTo(data, 2)))
         IN IF ~is_allowed(code) THEN OkSome(close(1002, SliceFrom(data, 2)))
            ELSE IF Len(data) > 2 /\ ~is_utf8(SliceFrom(data, 2))
            THEN Err("InvalidUTF8")
            ELSE OkSome(new(Close, data))

\* ----------------------------------------------------------------- decoder
\* A mutant of unmask: the key is applied one place late.
unmask_late(cur_payload, mask_key) ==
    IF Len(cur_payload) = 0 THEN cur_payload
    ELSE [i \in 1..Len(cur_payload) |-> Xor(cur_payload[i], mask_key[(i % 4) + 1])]

\* The loop of read_frame over a masked payload (reader.rs 201-203):
\* cur_payload[i] ^= mask_key[i % 4], i counted from 0
unmask(cur_payload, mask_key) ==
    IF Len(cur_payload) = 0 THEN cur_payload
    ELSE [i \in 1..Len(cur_payload) |->
            Xor(cur_payload[i], mask_key[((i - 1) % 4) + 1])]

\* Reader::read_frame on `input`, the bytes the source still delivers before
\* it ends, with the reader's max_payload_size `max`.  A read_exact that the
\* input cannot fill is Err(Io).
read_frame(input, max) ==
    IF Len(input) < 2 THEN Err("Io")
    ELSE
    LET b0 == input[1]
        b1 == input[2]
        fin == (b0 \div 128) % 2 = 1
        rsv1 == (b0 \div 64) % 2 = 1
        rsv2 == (b0 \div 32) % 2 = 1
        rsv3 == (b0 \div 16) % 2 = 1
        opcode == b0 % 16
        mask == (b1 \div 128) % 2 = 1
        len7 == b1 % 128
        ext == IF len7 = 126 THEN 2 ELSE IF len7 = 127 THEN 8 ELSE 0
    IN IF rsv1 \/ rsv2 \/ rsv3 THEN Err("ReservedBitsNotZero")
       ELSE IF opcode \notin ValidOpcodes THEN Err("InvalidOpCode")
       ELSE IF is_control(opcode) /\ ~fin THEN Err("InvalidControlFin")
       ELSE IF Len(input) < 2 + ext THEN Err("Io")
       ELSE
       LET payload_len == IF ext = 0 THEN len7
                          ELSE from_be_bytes(SubSeq(input, 3, 2 + ext))
           keylen == IF mask THEN 4 ELSE 0
           off == 2 + ext + keylen
       IN IF opcode = Ping /\ payload_len > 125 THEN Err("PingFrameTooLarge")
          ELSE IF Len(input) < off + payload_len THEN Err("Io")
          ELSE
          LET mask_key == SubSeq(input, 2 + ext + 1, off)
              cur_payload == SubSeq(input, off + 1, off + payload_len)
              payload == IF mask THEN unmask(cur_payload, mask_key) ELSE cur_payload
          IN IF opcode = Close /\ Len(payload) = 1 THEN Err("InvalidCloseFrame")
             ELSE IF Len(payload) > max THEN Err("FrameTooLarge")
             ELSE OkSome(Frame(fin, opcode, payload))

\* ----------------------------------------------------------------- encoder
\* The big-endian bytes of n in a number of bytes: u16/u64::to_be_bytes
RECURSIVE to_be_bytes(_, _)
to_be_bytes(n, width) ==
    IF width = 0 THEN <<>> ELSE to_be_bytes(n \div 256, width - 1) \o <<n % 256>>

\* The calls write_frame makes on its writer
WriteAll(bytes) == [call |-> "write_all", bytes |-> bytes]
Flush == [call |-> "flush", bytes |-> <<>>]

\* Ok(()) of write_frame
OkUnit == [tag |-> "Ok", err |-> "", frame |-> NoFrame]

\* A mutant of write_frame: the 16-bit length goes out low byte first.
write_frame_le(frame) ==
    LET first_byte == (IF frame.fin THEN 128 ELSE 0) + frame.opcode
        length == IF frame.len <= 125 THEN <<WriteAll(<<frame.len>>)>>
                  ELSE IF frame.len <= 65535
                  THEN <<WriteAll(<<126>>),
                         WriteAll(<<frame.len % 256, frame.len \div 256>>)>>
                  ELSE <<WriteAll(<<127>>), WriteAll(to_be_bytes(frame.len, 8))>>
    IN <<WriteAll(<<first_byte>>)>> \o length \o <<WriteAll(frame.data), Flush>>

\* A mutant of write_frame: the one-byte length form is used up to 126.
write_frame_126(frame) ==
    LET first_byte == (IF frame.fin THEN 128 ELSE 0) + frame.opcode
        length == IF frame.len <= 126 THEN <<WriteAll(<<frame.len>>)>>
                  ELSE IF frame.len <= 65535
                  THEN <<WriteAll(<<126>>), WriteAll(to_be_bytes(frame.len, 2))>>
                  ELSE <<WriteAll(<<127>>), WriteAll(to_be_bytes(frame.len, 8))>>
    IN <<WriteAll(<<first_byte>>)>> \o length \o <<WriteAll(frame.data), Flush>>

\* Writer::write_frame (writer.rs 7-30): the calls it makes on its writer
\* when none of them fails.  first_byte |= opcode adds the opcode, whose
\* bits lie below 0x80.
write_frame(frame) ==
    LET first_byte == (IF frame.fin THEN 128 ELSE 0) + frame.opcode
        length == IF frame.len <= 125 THEN <<WriteAll(<<frame.len>>)>>
                  ELSE IF frame.len <= 65535
                  THEN <<WriteAll(<<126>>), WriteAll(to_be_bytes(frame.len, 2))>>
                  ELSE <<WriteAll(<<127>>), WriteAll(to_be_bytes(frame.len, 8))>>
    IN <<WriteAll(<<first_byte>>)>> \o length \o <<WriteAll(frame.data), Flush>>

\* The bytes a sequence of calls has given to the writer
RECURSIVE SinkBytes(_)
SinkBytes(calls) ==
    IF calls = <<>> THEN <<>>
    ELSE SinkBytes(SubSeq(calls, 1, Len(calls) - 1)) \o Last(calls).bytes

\* ------------------------------------------------------------- reassembler
\* Fragments.fragments: Option<Fragment>.  kind is "None", "Text" or
\* "Binary"; trailing is the Text variant's Option<utf8::Incomplete> (<<>> is
\* None, <<bytes>> is Some(bytes)); buffer is the variant's Vec<u8>.
NoFragment == [kind |-> "None", trailing |-> <<>>, buffer |-> <<>>]
TextFragment(trailing, buffer) ==
    [kind |-> "Text", trailing |-> trailing, buffer |-> buffer]
BinaryFragment(buffer) ==
    [kind |-> "Binary", trailing |-> <<>>, buffer |-> buffer]

\* What accumulate leaves behind and returns.
Acc(frags, opc, res) == [fragments |-> frags, op_code |-> opc, res |-> res]

\* accumulate, Text | Binary with fin set (reader.rs 41-49)
acc_whole(frags, opc, frame) ==
    IF frags.kind # "None" THEN Acc(frags, opc, Err("InvalidFragment"))
    ELSE IF frame.opcode = Text /\ ~is_utf8(frame.data)
    THEN Acc(frags, opc, Err("InvalidUTF8"))
    ELSE Acc(frags, opc, OkSome(frame))

\* A mutant of acc_start: the payload of the start frame is buffered as it
\* came, undecoded.
acc_start_raw(frags, opc, frame) ==
    IF frame.opcode = Text
    THEN Acc(TextFragment(<<>>, frame.data), frame.opcode, OkNone)
    ELSE Acc(BinaryFragment(frame.data), frame.opcode, OkNone)

\* accumulate, Text | Binary with fin clear (reader.rs 51-68): the fragment
\* state is assigned whatever it was.
acc_start(frags, opc, frame) ==
    IF frame.opcode = Text
    THEN LET d == utf8_decode(frame.data)
         IN CASE d.tag = "Ok" ->
                   Acc(TextFragment(<<>>, d.valid_prefix), frame.opcode, OkNone)
              [] d.tag = "Incomplete" ->
                   Acc(TextFragment(<<d.incomplete_suffix>>, d.valid_prefix),
                       frame.opcode, OkNone)
              [] OTHER -> Acc(frags, opc, Err("InvalidUTF8"))
    ELSE Acc(BinaryFragment(frame.data), frame.opcode, OkNone)

\* A mutant of acc_cont_none: a Continuation with no message in progress
\* is passed on as a message.
acc_cont_none_pass(frags, opc, frame) == Acc(frags, opc, OkSome(frame))

\* accumulate, Continuation with fragments = None (reader.rs 71)
acc_cont_none(frags, opc, frame) == Acc(frags, opc, Err("InvalidContinuation"))

\* A mutant of emit: the message is returned under the opcode of its last
\* frame.
emit_continuation(frags, opc) ==
    Acc(NoFragment, opc, OkSome(new(Continuation, frags.buffer)))

\* self.fragments.take().unwrap().take_buffer() in Frame::new(self.op_code, ..)
\* (reader.rs 104-107, 113-116)
emit(frags, opc) ==
    Acc(NoFragment, opc, OkSome(new(opc, frags.buffer)))

\* A mutant of acc_cont_text: the stashed bytes are dropped instead of being
\* completed by the head of the new frame.
acc_cont_text_drop(frags, opc, frame) ==
    LET d == utf8_decode(frame.data)
    IN IF d.tag = "Invalid"
       THEN Acc(TextFragment(<<>>, frags.buffer), opc, Err("InvalidUTF8"))
       ELSE LET after == TextFragment(
                    IF d.tag = "Incomplete" THEN <<d.incomplete_suffix>> ELSE <<>>,
                    frags.buffer \o d.valid_prefix)
            IN IF frame.fin THEN emit(after, opc) ELSE Acc(after, opc, OkNone)

\* accumulate, Continuation with fragments = Some(Text(data, input))
\* (reader.rs 72-109)
acc_cont_text(frags, opc, frame) ==
    LET had == frags.trailing # <<>>
        c == IF had THEN try_complete(frags.trailing[1], frame.data)
             ELSE [some |-> FALSE, ok |-> FALSE, text |-> <<>>,
                   rest |-> <<>>, buffer |-> <<>>]
    IN IF had /\ c.some /\ ~c.ok
       THEN \* data.take() has emptied the stash
            Acc(TextFragment(<<>>, frags.buffer), opc, Err("InvalidUTF8"))
       ELSE
       LET tail == IF ~had THEN frame.data
                   ELSE IF c.some THEN c.rest ELSE <<>>
           input1 == IF had /\ c.some THEN frags.buffer \o c.text
                     ELSE frags.buffer
           data1 == IF had /\ ~c.some THEN <<c.buffer>> ELSE <<>>
           d == utf8_decode(tail)
       IN CASE d.tag = "Invalid" ->
                 Acc(TextFragment(data1, input1), opc, Err("InvalidUTF8"))
            [] OTHER ->
                 LET after == TextFragment(
                         IF d.tag = "Incomplete" THEN <<d.incomplete_suffix>>
                         ELSE data1,
                         input1 \o d.valid_prefix)
                 IN IF frame.fin THEN emit(after, opc)
                    ELSE Acc(after, opc, OkNone)

\* accumulate, Continuation with fragments = Some(Binary(data))
\* (reader.rs 110-118)
acc_cont_binary(frags, opc, frame) ==
    LET after == BinaryFragment(frags.buffer \o frame.data)
    IN IF frame.fin THEN emit(after, opc) ELSE Acc(after, opc, OkNone)

\* A mutant of acc_control: a control frame that arrives inside a fragmented
\* message is merged into the message.
acc_control_merge(frags, opc, frame) ==
    IF frags.kind = "None" THEN Acc(frags, opc, OkSome(frame))
    ELSE Acc([frags EXCEPT !.buffer = @ \o frame.data], opc, OkNone)

\* A mutant of acc_control: a control frame ends the message in progress.
acc_control_reset(frags, opc, frame) == Acc(NoFragment, Close, OkSome(frame))

\* accumulate, any other opcode (reader.rs 120)
acc_control(frags, opc, frame) == Acc(frags, opc, OkSome(frame))

\* Fragments::accumulate
accumulate(frags, opc, frame) ==
    IF frame.opcode \in {Text, Binary}
    THEN IF frame.fin THEN acc_whole(frags, opc, frame)
         ELSE acc_start(frags, opc, frame)
    ELSE IF frame.opcode = Continuation
    THEN CASE frags.kind = "None" -> acc_cont_none(frags, opc, frame)
           [] frags.kind = "Text" -> acc_cont_text(frags, opc, frame)
           [] OTHER -> acc_cont_binary(frags, opc, frame)
    ELSE acc_control(frags, opc, frame)

\* -------------------------------------------------------------- dispatcher
\* What handle_connection does with one message of the reader (handler.rs
\* 37-66): the frames it hands to Writer::write_frame, whether it leaves the
\* loop whatever the write returns, and whether a failed write is ignored.
Handling(frames, stop) == [write |-> frames, stop |-> stop]

\* A mutant of handle_message: a Ping is answered with a Ping.
handle_message_ping(frame) ==
    CASE frame.opcode = Close ->
           LET reply == new_close_reply(frame.data)
           IN Handling(IF reply.tag = "Some" THEN <<reply.frame>> ELSE <<>>, TRUE)
      [] frame.opcode = Ping -> Handling(<<new(Ping, frame.data)>>, FALSE)
      [] frame.opcode = Pong -> Handling(<<>>, FALSE)
      [] OTHER -> Handling(<<frame>>, FALSE)

\* A mutant of handle_message: the loop goes on after a Close.
handle_message_on(frame) ==
    CASE frame.opcode = Close ->
           LET reply == new_close_reply(frame.data)
           IN Handling(IF reply.tag = "Some" THEN <<reply.frame>> ELSE <<>>, FALSE)
      [] frame.opcode = Ping -> Handling(<<new(Pong, frame.data)>>, FALSE)
      [] frame.opcode = Pong -> Handling(<<>>, FALSE)
      [] OTHER -> Handling(<<frame>>, FALSE)

\* handle_connection, match frame.opcode
handle_message(frame) ==
    CASE frame.opcode = Close ->
           LET reply == new_close_reply(frame.data)
           IN Handling(IF reply.tag = "Some" THEN <<reply.frame>> ELSE <<>>, TRUE)
      [] frame.opcode = Ping -> Handling(<<new(Pong, frame.data)>>, FALSE)
      [] frame.opcode = Pong -> Handling(<<>>, FALSE)
      [] OTHER -> Handling(<<frame>>, FALSE)

\* --------------------------------------------------------------- handshake
\* Text is a sequence of characters, each a string of one character; "K*"
\* stands for the one character U+212A KELVIN SIGN.

\* char::is_whitespace, for the characters of the model
IsSpace(c) == c \in {" ", "\t", "\r", "\n"}

\* str::trim_start, str::trim_end, str::trim
RECURSIVE trim_start(_)
trim_start(s) ==
    IF s # <<>> /\ IsSpace(s[1]) THEN trim_start(Tail(s)) ELSE s

RECURSIVE trim_end(_)
trim_end(s) ==
    IF s # <<>> /\ IsSpace(Last(s)) THEN trim_end(SubSeq(s, 1, Len(s) - 1)) ELSE s

trim(s) == trim_start(trim_end(s))

\* str::starts_with
starts_with(s, prefix) ==
    Len(prefix) <= Len(s) /\ SubSeq(s, 1, Len(prefix)) = prefix

\* The characters with a lowercase form other than themselves, and that form
UpperChars ==
    <<"A", "B", "C", "D", "E", "F", "G", "H", "I", "J", "K", "L", "M", "N",
      "O", "P", "Q", "R", "S", "T", "U", "V", "W", "X", "Y", "Z", "K*">>

LowerChars ==
    <<"a", "b", "c", "d", "e", "f", "g", "h", "i", "j", "k", "l", "m", "n",
      "o", "p", "q", "r", "s", "t", "u", "v", "w", "x", "y", "z", "k">>

\* char::to_lowercase
LowerChar(c) ==
    IF \E i \in 1..Len(UpperChars) : UpperChars[i] = c
    THEN LowerChars[CHOOSE i \in 1..Len(UpperChars) : UpperChars[i] = c]
    ELSE c

\* str::to_lowercase
to_lowercase(s) ==
    IF s = <<>> THEN s ELSE [i \in 1..Len(s) |-> LowerChar(s[i])]

\* str::split_once(":"): the text before and after the first ':', if any
None == [some |-> FALSE, key |-> <<>>, value |-> <<>>]
Some(key, value) == [some |-> TRUE, key |-> key, value |-> value]

\* A mutant of split_once: the line is split at its last ':'.
split_once_last(line) ==
    IF \E i \in 1..Len(line) : line[i] = ":"
    THEN LET at == CHOOSE i \in 1..Len(line) :
                     line[i] = ":" /\ \A j \in (i + 1)..Len(line) : line[j] # ":"
         IN Some(SubSeq(line, 1, at - 1), SubSeq(line, at + 1, Len(line)))
    ELSE None

\* str::split_once(":") (handshake.rs 50)
split_once(line) ==
    IF \E i \in 1..Len(line) : line[i] = ":"
    THEN LET at == CHOOSE i \in 1..Len(line) :
                     line[i] = ":" /\ \A j \in 1..(i - 1) : line[j] # ":"
         IN Some(SubSeq(line, 1, at - 1), SubSeq(line, at + 1, Len(line)))
    ELSE None

\* HashMap::insert: the value of a key already there is replaced
insert(map, key, value) ==
    [k \in (DOMAIN map) \cup {key} |-> IF k = key THEN value ELSE map[k]]

\* HashMap::new
NoHeaders == <<>>

\* The results of the handshake's functions.  MissingHeader carries the
\* header's name, InvalidHeader a message.
HsOk == [tag |-> "Ok", kind |-> "", text |-> "", header |-> <<>>]
Io == [tag |-> "Err", kind |-> "Io", text |-> "", header |-> <<>>]
MissingHeader(header) ==
    [tag |-> "Err", kind |-> "MissingHeader", text |-> "", header |-> header]
InvalidHeader(text) ==
    [tag |-> "Err", kind |-> "InvalidHeader", text |-> text, header |-> <<>>]

\* The texts the handshake compares with
GET ==
    <<"G", "E", "T">>

SecWebSocketKey ==
    <<"S", "e", "c", "-", "W", "e", "b", "S", "o", "c", "k", "e", "t", "-",
      "K", "e", "y">>

Upgrade ==
    <<"U", "p", "g", "r", "a", "d", "e">>

Connection ==
    <<"C", "o", "n", "n", "e", "c", "t", "i", "o", "n">>

websocket ==
    <<"w", "e", "b", "s", "o", "c", "k", "e", "t">>

upgrade ==
    <<"u", "p", "g", "r", "a", "d", "e">>

\* REQUIRED_HEADERS (handshake.rs 8)
REQUIRED_HEADERS == <<SecWebSocketKey, Upgrade, Connection>>

\* A mutant of validate_headers: the required headers are looked for last
\* one first.
validate_headers_rev(hdrs) ==
    LET missing == {i \in 1..Len(REQUIRED_HEADERS) :
                      REQUIRED_HEADERS[i] \notin DOMAIN hdrs}
    IN IF missing # {}
       THEN MissingHeader(REQUIRED_HEADERS[CHOOSE i \in missing :
                                             \A j \in missing : j <= i])
       ELSE IF to_lowercase(hdrs[Upgrade]) # websocket
       THEN InvalidHeader("Upgrade header must be websocket")
       ELSE IF to_lowercase(hdrs[Connection]) # upgrade
       THEN InvalidHeader("Connection header must be upgrade")
       ELSE HsOk

\* validate_headers (handshake.rs 62-82)
validate_headers(hdrs) ==
    LET missing == {i \in 1..Len(REQUIRED_HEADERS) :
                      REQUIRED_HEADERS[i] \notin DOMAIN hdrs}
    IN IF missing # {}
       THEN MissingHeader(REQUIRED_HEADERS[CHOOSE i \in missing :
                                             \A j \in missing : i <= j])
       ELSE IF to_lowercase(hdrs[Upgrade]) # websocket
       THEN InvalidHeader("Upgrade header must be websocket")
       ELSE IF to_lowercase(hdrs[Connection]) # upgrade
       THEN InvalidHeader("Connection header must be upgrade")
       ELSE HsOk

\* ------------------------------------------------- the handshake's response
\* str::as_bytes for a text of the characters of US-ASCII from the space
\* to the tilde ("grave" stands for the grave accent, 0x60)
as_bytes(text) ==
    LET chars ==
        <<" ", "!", "\"", "#", "$", "%", "&", "'", "(", ")", "*", "+", ",", "-",
          ".", "/", "0", "1", "2", "3", "4", "5", "6", "7", "8", "9", ":", ";",
          "<", "=", ">", "?", "@", "A", "B", "C", "D", "E", "F", "G", "H", "I",
          "J", "K", "L", "M", "N", "O", "P", "Q", "R", "S", "T", "U", "V", "W",
          "X", "Y", "Z", "[", "\\", "]", "^", "_", "grave", "a", "b", "c", "d", "e",
          "f", "g", "h", "i", "j", "k", "l", "m", "n", "o", "p", "q", "r", "s",
          "t", "u", "v", "w", "x", "y", "z", "{", "|", "}", "~">>
    IN [i \in 1..Len(text) |->
          31 + (CHOOSE j \in 1..Len(chars) : chars[j] = text[i])]

\* Bitwise and of two naturals
RECURSIVE BitAnd(_, _)
BitAnd(a, b) ==
    IF a = 0 \/ b = 0 THEN 0
    ELSE (a % 2) * (b % 2) + 2 * BitAnd(a \div 2, b \div 2)

\* A u32 is kept as its two halves of 16 bits, the high one first, so that
\* no sum passes 2^31.
WordXor(x, y) == <<Xor(x[1], y[1]), Xor(x[2], y[2])>>
WordAnd(x, y) == <<BitAnd(x[1], y[1]), BitAnd(x[2], y[2])>>
WordOr(x, y) ==
    <<x[1] + y[1] - BitAnd(x[1], y[1]), x[2] + y[2] - BitAnd(x[2], y[2])>>

\* u32::wrapping_add
wrapping_add(x, y) ==
    LET lo == x[2] + y[2]
        hi == x[1] + y[1] + (lo \div 65536)
    IN <<hi % 65536, lo % 65536>>

\* u32::rotate_left by n, 0 < n < 32
rotate_left(x, n) ==
    LET y == IF n >= 16 THEN <<x[2], x[1]>> ELSE x
        k == n % 16
        m == 2 ^ k
        d == 65536 \div m
    IN IF k = 0 THEN y
       ELSE <<((y[1] * m) % 65536) + (y[2] \div d),
              ((y[2] * m) % 65536) + (y[1] \div d)>>

\* SHA-1 (FIPS 180-4) as the sha1 crate computes it.
\* The constant of round t, 0 <= t < 80
Sha1K(t) ==
    IF t < 20 THEN <<23170, 31129>>
    ELSE IF t < 40 THEN <<28377, 60321>>
    ELSE IF t < 60 THEN <<36635, 48348>>
    ELSE <<51810, 49622>>

\* The function of round t
Sha1F(t, b, c, d) ==
    IF t < 20
    THEN WordOr(WordAnd(b, c), WordAnd(<<65535 - b[1], 65535 - b[2]>>, d))
    ELSE IF t < 40 THEN WordXor(WordXor(b, c), d)
    ELSE IF t < 60
    THEN WordOr(WordOr(WordAnd(b, c), WordAnd(b, d)), WordAnd(c, d))
    ELSE WordXor(WordXor(b, c), d)

\* The padding: 0x80, zeros up to 56 modulo 64, the length in bits as u64
Sha1Pad(msg) ==
    LET n == Len(msg)
        zeros == (119 - (n % 64)) % 64
    IN msg \o <<128>> \o [i \in 1..zeros |-> 0] \o to_be_bytes(8 * n, 8)

\* The message schedule: eighty words from the sixteen
RECURSIVE Sha1Schedule(_)
Sha1Schedule(w) ==
    IF Len(w) = 80 THEN w
    ELSE LET t == Len(w) + 1
             x == WordXor(WordXor(w[t - 3], w[t - 8]),
                          WordXor(w[t - 14], w[t - 16]))
         IN Sha1Schedule(Append(w, rotate_left(x, 1)))

\* The rounds from t on; v is <<a, b, c, d, e>>, five words
RECURSIVE Sha1Rounds(_, _, _)
Sha1Rounds(w, t, v) ==
    IF t = 80 \/ Len(v) # 5 THEN v
    ELSE LET temp == wrapping_add(
                        wrapping_add(
                          wrapping_add(rotate_left(v[1], 5),
                                       Sha1F(t, v[2], v[3], v[4])),
                          wrapping_add(v[5], Sha1K(t))),
                        w[t + 1])
         IN Sha1Rounds(w, t + 1,
                       <<temp, v[1], rotate_left(v[2], 30), v[3], v[4]>>)

\* The blocks from blk (counted from 0) on; h is the hash value so far,
\* block the sixteen words of the block
RECURSIVE Sha1Blocks(_, _, _)
Sha1Blocks(padded, blk, h) ==
    IF 64 * blk >= Len(padded) THEN h
    ELSE LET block == [i \in 1..16 |->
                         LET o == 64 * blk + 4 * (i - 1)
                         IN <<256 * padded[o + 1] + padded[o + 2],
                              256 * padded[o + 3] + padded[o + 4]>>]
             v == Sha1Rounds(Sha1Schedule(block), 0, h)
         IN Sha1Blocks(padded, blk + 1,
                       [i \in 1..5 |-> wrapping_add(h[i], v[i])])

\* Sha1::new (the initial hash value h0), update(msg), finalize: the twenty
\* bytes of the digest
Sha1(msg) ==
    LET h0 == <<<<26437, 8961>>, <<61389, 43913>>, <<39098, 56574>>,
                <<4146, 21622>>, <<50130, 57840>>>>
        h == Sha1Blocks(Sha1Pad(msg), 0, h0)
    IN [i \in 1..20 |->
          LET half == h[((i - 1) \div 4) + 1][(((i - 1) % 4) \div 2) + 1]
          IN IF i % 2 = 1 THEN half \div 256 ELSE half % 256]

\* The alphabet of base64::engine::general_purpose::STANDARD
StandardAlphabet ==
    <<"A", "B", "C", "D", "E", "F", "G", "H", "I", "J", "K", "L", "M", "N",
      "O", "P", "Q", "R", "S", "T", "U", "V", "W", "X", "Y", "Z", "a", "b",
      "c", "d", "e", "f", "g", "h", "i", "j", "k", "l", "m", "n", "o", "p",
      "q", "r", "s", "t", "u", "v", "w", "x", "y", "z", "0", "1", "2", "3",
      "4", "5", "6", "7", "8", "9", "+", "/">>

\* STANDARD.encode: with padding
RECURSIVE encode(_)
encode(bytes) ==
    IF bytes = <<>> THEN <<>>
    ELSE LET n == Len(bytes)
             b1 == bytes[1]
             b2 == IF n >= 2 THEN bytes[2] ELSE 0
             b3 == IF n >= 3 THEN bytes[3] ELSE 0
             c1 == StandardAlphabet[(b1 \div 4) + 1]
             c2 == StandardAlphabet[((b1 % 4) * 16) + (b2 \div 16) + 1]
             c3 == IF n >= 2
                   THEN StandardAlphabet[((b2 % 16) * 4) + (b3 \div 64) + 1]
                   ELSE "="
             c4 == IF n >= 3 THEN StandardAlphabet[(b3 % 64) + 1] ELSE "="
         IN <<c1, c2, c3, c4>> \o
            (IF n > 3 THEN encode(SubSeq(bytes, 4, n)) ELSE <<>>)

\* WEBSOCKET_GUID (handshake.rs 7)
WEBSOCKET_GUID ==
    <<"2", "5", "8", "E", "A", "F", "A", "5", "-", "E", "9", "1", "4", "-",
      "4", "7", "D", "A", "-", "9", "5", "C", "A", "-", "C", "5", "A", "B",
      "0", "D", "C", "8", "5", "B", "1", "1">>

\* The response up to the accept key
ResponseHead ==
    <<"H", "T", "T", "P", "/", "1", ".", "1", " ", "1", "0", "1", " ", "S",
      "w", "i", "t", "c", "h", "i", "n", "g", " ", "P", "r", "o", "t", "o",
      "c", "o", "l", "s", "\r", "\n", "U", "p", "g", "r", "a", "d", "e",
      ":", " ", "w", "e", "b", "s", "o", "c", "k", "e", "t", "\r", "\n",
      "C", "o", "n", "n", "e", "c", "t", "i", "o", "n", ":", " ", "U", "p",
      "g", "r", "a", "d", "e", "\r", "\n", "S", "e", "c", "-", "W", "e",
      "b", "S", "o", "c", "k", "e", "t", "-", "A", "c", "c", "e", "p", "t",
      ":", " ">>

\* A mutant of generate_response: the GUID is hashed before the key.
generate_response_guid_first(key) ==
    LET result == Sha1(as_bytes(WEBSOCKET_GUID \o key))
        accept_key == encode(result)
    IN ResponseHead \o accept_key \o <<"\r", "\n", "\r", "\n">>

\* generate_response (handshake.rs 94-106)
generate_response(key) ==
    LET result == Sha1(as_bytes(key \o WEBSOCKET_GUID))
        accept_key == encode(result)
    IN ResponseHead \o accept_key \o <<"\r", "\n", "\r", "\n">>

\* ------------------------------------------------------------- environment
\* A text the client sends: 'A', then U+20AC in its three bytes E2 82 AC
Sample == <<65, 226, 130, 172>>

\* Payloads of Text and Continuation frames: every run of at most MaxLen
\* bytes of the text, so every way to cut it, inside the code point too; out
\* of order, or with the rest missing, the runs make up invalid sequences.
Payloads ==
    {<<>>} \cup UNION {{SubSeq(Sample, i, j) :
                          j \in i..Min(Len(Sample), i + MaxLen - 1)} :
                       i \in 1..Len(Sample)}

\* Payloads of the Binary frames that are, or start, a message
BinPayloads == {<<172>>, <<65, 226>>}

\* Payloads of Ping and Pong frames: "p"
CtlPayloads == {<<112>>}

\* Close codes the client sends
CloseCodes == {0, 999, 1004, 1005, 1006, 1014, 1015, 1016, 2999, 5000, 65535}
                 \cup (1000..1003) \cup (1007..1013) \cup {3000, 4999}

\* Arguments of new_close_reply: empty, one byte, a code and a reason
CloseArgs ==
    {<<>>} \cup {<<b>> : b \in {3, 65}}
      \cup {to_be_bytes16(c) \o r : c \in CloseCodes, r \in Payloads}

\* Payloads of the Close frames the client sends
ClosePayloads ==
    {<<>>, to_be_bytes16(1005)} \cup {to_be_bytes16(1000) \o r : r \in {<<65>>, <<172>>}}

\* The masking key of the client (that of RFC 6455's examples)
MaskKey == <<55, 250, 33, 61>>

\* n times the byte b
Rep(b, n) == [i \in 1..n |-> b]

\* The client's encoding of one frame (reader.rs 289-310 builds the same
\* bytes by hand): rsv is the three reserved bits as a number 0..7.
ClientFrame(fin, rsv, opcode, masked, payload) ==
    LET n == Len(payload)
        b0 == (IF fin THEN 128 ELSE 0) + 16 * rsv + opcode
        m == IF masked THEN 128 ELSE 0
        head == IF n <= 125 THEN <<b0, m + n>>
                ELSE <<b0, m + 126>> \o to_be_bytes16(n)
        body == IF ~masked THEN payload
                ELSE IF n = 0 THEN MaskKey
                ELSE MaskKey \o [i \in 1..n |-> Xor(payload[i], MaskKey[((i - 1) % 4) + 1])]
    IN head \o body

\* Well-formed frames
GoodInputs ==
    {ClientFrame(fin, 0, op, TRUE, p) :
        fin \in BOOLEAN, op \in {Continuation, Text}, p \in Payloads}
      \cup {ClientFrame(fin, 0, Binary, TRUE, p) : fin \in BOOLEAN, p \in BinPayloads}
      \cup {ClientFrame(TRUE, 0, op, TRUE, p) : op \in {Ping, Pong}, p \in CtlPayloads}
      \cup {ClientFrame(TRUE, 0, Close, TRUE, p) : p \in ClosePayloads}
      \cup {ClientFrame(TRUE, 0, Text, FALSE, <<65>>)}

\* Frames the decoder refuses, and inputs that end early
BadInputs ==
    { ClientFrame(TRUE, 4, Text, TRUE, <<65>>),
      ClientFrame(TRUE, 0, 3, TRUE, <<65>>),
      ClientFrame(FALSE, 0, Ping, TRUE, <<>>),
      ClientFrame(TRUE, 0, Ping, TRUE, Rep(65, 126)),
      ClientFrame(TRUE, 0, Close, TRUE, <<3>>),
      ClientFrame(TRUE, 0, Binary, TRUE, Rep(65, MaxLen + 2)),
      <<129, 130>> }

\* The input has ended
EndInputs == {<<>>}

\* Control frames of 126 bytes that are not a Ping: a Pong, and a Close with
\* code 1005 and a reason of 124 bytes.  They come unmasked, which read_frame
\* accepts (reader.rs 197-206).
LongControlInputs ==
    { ClientFrame(TRUE, 0, Pong, FALSE, Rep(65, 126)),
      ClientFrame(TRUE, 0, Close, FALSE, to_be_bytes16(1005) \o Rep(65, 124)) }

\* Inputs that end inside a frame, where a read_exact of read_frame cannot be
\* filled (reader.rs 152, 180, 185, 199, 200, 205): inside the two header
\* bytes, inside the extended length, inside the mask key, inside the
\* payload; and three whose header bytes break a rule before the end is met
\* (a reserved bit, a Ping with fin clear, a Ping that declares 126 bytes).
ShortInputs ==
    { <<129>>,
      <<129, 130>>,
      <<129, 254, 0>>,
      <<129, 130, 55>>,
      <<129, 130, 55, 250, 33, 61, 118>>,
      <<193, 254>>,
      <<9, 254>>,
      <<137, 254, 0, 126, 55>> }

WireInputs ==
    GoodInputs \cup BadInputs \cup LongControlInputs \cup ShortInputs \cup EndInputs

\* The maximum given to Reader::new: one that the client's frames reach.
\* (handle_connection gives 64 MiB, handler.rs 27; below the maximum the
\* reader does the same for every value of it.)
MaxPayloadSizes == {MaxLen + 1}

\* The maximum handle_connection gives to Reader::new (handler.rs 27)
ConfiguredMax == 64 * 1024 * 1024

\* ---------------------------------------------- inputs of read_frame alone
\* "Hello", the payload of test_read_individual_frames (reader.rs 245)
Hello == <<72, 101, 108, 108, 111>>

\* The payload as the client masks it
Masked(payload) ==
    IF Len(payload) = 0 THEN payload
    ELSE [i \in 1..Len(payload) |-> Xor(payload[i], MaskKey[((i - 1) % 4) + 1])]

\* A frame with a header the client chooses freely: any first nibbles, and a
\* length code len7 with extended length bytes ext that need not be the
\* shortest ones.
WireFrame(fin, rsv, opcode, masked, len7, ext, payload) ==
    <<(IF fin THEN 128 ELSE 0) + 16 * rsv + opcode,
      (IF masked THEN 128 ELSE 0) + len7>>
      \o ext \o (IF masked THEN MaskKey \o Masked(payload) ELSE payload)

\* The proper prefixes of an input: the source ends inside the frame
Truncations(input) == {SubSeq(input, 1, n) : n \in 0..(Len(input) - 1)}

\* Payloads of the frames given to read_frame alone: up to one byte more
\* than the small maximum
DecPayloads == {Rep(65, n) : n \in 1..(MaxLen + 2)} \cup {<<>>, <<65, 226>>, Hello}

\* Inputs of read_frame alone: every first byte's nibble with and without a
\* reserved bit, masked and not; control frames of 125 and 126 bytes; the
\* 16-bit and 64-bit length forms; inputs that end early, among them a
\* Binary frame that declares 2048 bytes and brings none.
DecoderInputs ==
    {ClientFrame(fin, rsv, op, m, p) :
        fin \in BOOLEAN, rsv \in {0, 2}, op \in 0..15, m \in BOOLEAN,
        p \in DecPayloads}
      \cup {ClientFrame(TRUE, 0, op, m, Rep(65, n)) :
               op \in {Close, Ping, Pong}, m \in BOOLEAN, n \in {125, 126}}
      \cup {WireFrame(TRUE, 0, Binary, m, 126, <<0, 2>>, <<65, 226>>) : m \in BOOLEAN}
      \cup {WireFrame(TRUE, 0, Binary, m, 127, <<0, 0, 0, 0, 0, 0, 0, 5>>, Hello) :
               m \in BOOLEAN}
      \cup UNION {Truncations(ClientFrame(TRUE, 0, op, m, Rep(65, MaxLen + 2))) :
                     op \in {Text, Binary}, m \in BOOLEAN}
      \cup UNION {Truncations(WireFrame(TRUE, 0, Binary, m, 127,
                                         <<0, 0, 0, 0, 0, 0, 0, 5>>, Hello)) :
                     m \in BOOLEAN}
      \cup {<<130, 126, 8, 0>>, <<130, 254, 8, 0>> \o MaskKey}
      \cup {ClientFrame(fin, rsv, Ping, m, Rep(65, 126)) :
               fin \in BOOLEAN, rsv \in {0, 2}, m \in BOOLEAN}

\* The maxima of the readers given to read_frame alone: a small one, the
\* one of handle_connection, and none at all
DecoderMaxima == {0, MaxLen + 1, ConfiguredMax}

\* ---------------------------------------------- inputs of write_frame alone
\* Payloads of the frames given to write_frame alone: short ones, and those
\* on either side of the two places where the length form changes
EncPayloads == {<<>>, <<65>>, Hello} \cup {Rep(65, n) : n \in {125, 126}}

\* Frames given to write_frame alone
EncFrames ==
    {Frame(fin, op, p) : fin \in BOOLEAN, op \in ValidOpcodes, p \in EncPayloads}
      \cup {Frame(TRUE, op, Rep(65, n)) :
               op \in {Text, Binary}, n \in {65535, 65536}}

\* --------------------------------------- inputs of generate_response alone
\* The key of the test (handshake.rs 271) and of RFC 6455, and another one
SampleKey ==
    <<"d", "G", "h", "l", "I", "H", "N", "h", "b", "X", "B", "s", "Z", "S",
      "B", "u", "b", "2", "5", "j", "Z", "Q", "=", "=">>

OtherKey ==
    <<"x", "3", "J", "J", "H", "M", "b", "D", "L", "1", "E", "z", "L", "k",
      "h", "9", "G", "B", "h", "X", "D", "w", "=", "=">>

\* The keys given to generate_response: whatever text the header carries,
\* here the two keys, their beginnings and their ends, the empty text among
\* them
ResponseKeys ==
    UNION {{SubSeq(k, 1, n), SubSeq(k, n + 1, Len(k))} :
             k \in {SampleKey, OtherKey}, n \in 0..24}

\* ------------------------------------------------- inputs of the handshake
\* Lines as read_line returns them, the line end included.  Request lines:
\* that of the tests, a POST (test_invalid_method), a lowercase method, a
\* method that only begins with GET.
ReqGet ==
    <<"G", "E", "T", " ", "/", " ", "H", "T", "T", "P", "/", "1", ".", "1",
      "\r", "\n">>

ReqPost ==
    <<"P", "O", "S", "T", " ", "/", " ", "H", "T", "T", "P", "/", "1", ".",
      "1", "\r", "\n">>

ReqLower ==
    <<"g", "e", "t", " ", "/", " ", "H", "T", "T", "P", "/", "1", ".", "1",
      "\r", "\n">>

ReqGets ==
    <<"G", "E", "T", "S", " ", "/", " ", "H", "T", "T", "P", "/", "1", ".",
      "1", "\n">>

\* Header lines: a value with a ':' in it, a line without ':'
HostLine ==
    <<"H", "o", "s", "t", ":", " ", "l", "o", "c", "a", "l", "h", "o", "s",
      "t", ":", "8", "0", "8", "0", "\r", "\n">>

NoColonLine ==
    <<"H", "o", "s", "t", "\r", "\n">>

KeyLine ==
    <<"S", "e", "c", "-", "W", "e", "b", "S", "o", "c", "k", "e", "t", "-",
      "K", "e", "y", ":", " ", "d", "G", "h", "l", "I", "H", "N", "h", "b",
      "X", "B", "s", "Z", "S", "B", "u", "b", "2", "5", "j", "Z", "Q", "=",
      "=", "\r", "\n">>

\* Upgrade: as the tests send it, in capitals, with U+212A for the k, with
\* another protocol, and under a name in lowercase
UpgradeLine ==
    <<"U", "p", "g", "r", "a", "d", "e", ":", " ", "w", "e", "b", "s", "o",
      "c", "k", "e", "t", "\r", "\n">>

UpgradeCaps ==
    <<"U", "p", "g", "r", "a", "d", "e", ":", " ", "W", "e", "b", "S", "o",
      "c", "k", "e", "t", "\r", "\n">>

UpgradeKelvin ==
    <<"U", "p", "g", "r", "a", "d", "e", ":", " ", "w", "e", "b", "s", "o",
      "c", "K*", "e", "t", "\r", "\n">>

UpgradeHttp ==
    <<"U", "p", "g", "r", "a", "d", "e", ":", " ", "h", "t", "t", "p",
      "\r", "\n">>

UpgradeLowerName ==
    <<"u", "p", "g", "r", "a", "d", "e", ":", " ", "w", "e", "b", "s", "o",
      "c", "k", "e", "t", "\r", "\n">>

\* Connection: as the tests send it, another value, a list of tokens
ConnectionLine ==
    <<"C", "o", "n", "n", "e", "c", "t", "i", "o", "n", ":", " ", "U", "p",
      "g", "r", "a", "d", "e", "\r", "\n">>

ConnectionKeepAlive ==
    <<"C", "o", "n", "n", "e", "c", "t", "i", "o", "n", ":", " ", "k", "e",
      "e", "p", "-", "a", "l", "i", "v", "e", "\r", "\n">>

ConnectionList ==
    <<"C", "o", "n", "n", "e", "c", "t", "i", "o", "n", ":", " ", "k", "e",
      "e", "p", "-", "a", "l", "i", "v", "e", ",", " ", "U", "p", "g", "r",
      "a", "d", "e", "\r", "\n">>

\* The line that ends the headers, and one of blanks only
BlankLine ==
    <<"\r", "\n">>

SpacesLine ==
    <<" ", "\t", "\r", "\n">>

RequestLines == {ReqGet, ReqPost, ReqLower, ReqGets}

HostParts == {<<>>, <<HostLine>>, <<NoColonLine>>}

\* No Upgrade header, one, or two of which the second replaces the first
UpgradeParts ==
    {<<>>, <<UpgradeLine>>, <<UpgradeCaps>>, <<UpgradeKelvin>>, <<UpgradeHttp>>,
     <<UpgradeLowerName>>, <<UpgradeLine, UpgradeHttp>>}

ConnectionParts ==
    {<<>>, <<ConnectionLine>>, <<ConnectionKeepAlive>>, <<ConnectionList>>}

KeyParts == {<<>>, <<KeyLine>>}

\* The headers end with an empty line, with a line of blanks, or because the
\* input ends
EndParts == {<<>>, <<BlankLine>>, <<SpacesLine>>}

\* What the client sends before its frames: nothing at all, or a request
\* line and headers
Preambles ==
    {<<>>} \cup
    {<<r>> \o h \o u \o c \o k \o e :
        r \in RequestLines, h \in HostParts, u \in UpgradeParts,
        c \in ConnectionParts, k \in KeyParts, e \in EndParts}

\* ------------------------------------------------------------------- state
VARIABLES
    pc,                 \* where handle_connection stands: "read", "dispatch", "done"
    max_payload_size,   \* Reader.max_payload_size
    fragments,          \* Reader.fragments.fragments
    op_code,            \* Reader.fragments.op_code
    res,                \* what the last read_frame + accumulate returned
    wire,               \* history: the frames decoded so far, in wire order
    delivered,          \* history: the frames Reader::read returned, each with
                        \* the number of frames decoded when it was returned
    written,            \* history: the calls of Writer::write_frame, each with
                        \* the frame and whether the write returned Ok
    arg,                \* a function alone: its argument
    ret,                \* a function alone: its result
    sink,               \* write_frame alone: the calls made on its writer
    input_lines,        \* the lines the handshake's reader still delivers
    eof,                \* the source has ended: it delivers nothing more
    headers,            \* read_http_headers: its map of headers
    hs,                 \* what do_handshake returned, NotYet before that
    sent,               \* history: the calls of send_response, each with the
                        \* key, whether it returned Ok and whether bytes of
                        \* the response reached the transport
    tasks               \* main: the tasks spawned, one per connection
                        \* accepted, each with the locals of its
                        \* handle_connection

vars == <<pc, max_payload_size, fragments, op_code, res, wire, delivered,
          written, arg, ret, sink, input_lines, eof, headers, hs, sent,
          tasks>>

\* The state of the handshake
hsvars == <<input_lines, eof, headers, hs, sent>>

\* do_handshake has not returned
NotYet == [tag |-> "NotYet", kind |-> "", text |-> "", header |-> <<>>]

\* No handshake is part of the run: nothing to read, nothing read or sent
NoHandshake ==
    /\ input_lines = <<>>
    /\ eof = FALSE
    /\ headers = NoHeaders
    /\ hs = NotYet
    /\ sent = <<>>

\* Reader::new, Fragments::new (reader.rs 31-36, 128-130) at handler.rs 27
Init ==
    /\ pc = "read"
    /\ max_payload_size \in MaxPayloadSizes
    /\ tasks = <<>>
    /\ fragments = NoFragment
    /\ op_code = Close
    /\ res = OkNone
    /\ wire = <<>>
    /\ delivered = <<>>
    /\ written = <<>>
    /\ arg = <<>>
    /\ ret = OkNone
    /\ sink = <<>>
    /\ NoHandshake

\* A mutant of ReadFrame: the loop goes on after a read that failed.
ReadFrame_spin ==
    /\ pc = "read"
    /\ \E input \in (IF Len(wire) < MaxFrames /\ ~eof THEN WireInputs ELSE EndInputs) :
         LET d == read_frame(input, max_payload_size)
         IN IF d.tag = "Err"
            THEN /\ res' = d
                 /\ pc' = "read"
                 /\ eof' = (eof \/ input \in ShortInputs \cup EndInputs)
                 /\ UNCHANGED <<fragments, op_code, wire, delivered>>
            ELSE LET a == accumulate(fragments, op_code, d.frame)
                 IN /\ fragments' = a.fragments
                    /\ op_code' = a.op_code
                    /\ res' = a.res
                    /\ wire' = Append(wire, d.frame)
                    /\ delivered' =
                         IF a.res.tag = "Some"
                         THEN Append(delivered,
                                     [frame |-> a.res.frame, at |-> Len(wire) + 1])
                         ELSE delivered
                    /\ pc' = CASE a.res.tag = "Some" -> "dispatch"
                               [] a.res.tag = "None" -> "read"
                               [] OTHER -> "done"
                    /\ \E last \in (IF Len(wire) + 1 < MaxFrames THEN BOOLEAN ELSE {TRUE}) :
                         eof' = (eof \/ last)
    /\ UNCHANGED <<max_payload_size, tasks, written, arg, ret, sink,
                   input_lines, headers, hs, sent>>

\* One turn of the loop of Reader::read (reader.rs 136-142) inside the loop of
\* handle_connection (handler.rs 30-35): a frame is decoded and accumulated.
\* An error leaves the dispatch loop, a message goes to the match.  The
\* source may end inside the frame, or right after it (last), and it ends
\* after MaxFrames frames at the latest; once it has ended, in the handshake
\* or here, every read_exact finds nothing.
ReadFrame ==
    /\ pc = "read"
    /\ \E input \in (IF Len(wire) < MaxFrames /\ ~eof THEN WireInputs ELSE EndInputs) :
         LET d == read_frame(input, max_payload_size)
         IN IF d.tag = "Err"
            THEN /\ res' = d
                 /\ pc' = "done"
                 /\ eof' = (eof \/ input \in ShortInputs \cup EndInputs)
                 /\ UNCHANGED <<fragments, op_code, wire, delivered>>
            ELSE LET a == accumulate(fragments, op_code, d.frame)
                 IN /\ fragments' = a.fragments
                    /\ op_code' = a.op_code
                    /\ res' = a.res
                    /\ wire' = Append(wire, d.frame)
                    /\ delivered' =
                         IF a.res.tag = "Some"
                         THEN Append(delivered,
                                     [frame |-> a.res.frame, at |-> Len(wire) + 1])
                         ELSE delivered
                    /\ pc' = CASE a.res.tag = "Some" -> "dispatch"
                               [] a.res.tag = "None" -> "read"
                               [] OTHER -> "done"
                    /\ \E last \in (IF Len(wire) + 1 < MaxFrames THEN BOOLEAN ELSE {TRUE}) :
                         eof' = (eof \/ last)
    /\ UNCHANGED <<max_payload_size, tasks, written, arg, ret, sink,
                   input_lines, headers, hs, sent>>

\* A mutant of Dispatch: the loop goes on after a write that failed.
Dispatch_on ==
    /\ pc = "dispatch"
    /\ LET h == handle_message(res.frame)
       IN IF h.write = <<>>
          THEN /\ written' = written
               /\ pc' = IF h.stop THEN "done" ELSE "read"
          ELSE \E ok \in BOOLEAN :
                 /\ written' = Append(written, [frame |-> h.write[1], ok |-> ok])
                 /\ pc' = IF h.stop THEN "done" ELSE "read"
    /\ UNCHANGED <<max_payload_size, tasks, fragments, op_code, res, wire, delivered,
                   arg, ret, sink, hsvars>>

\* The match of handle_connection on the message read (handler.rs 37-66):
\* write_frame returns Ok or an I/O error; a failed write leaves the loop.
Dispatch ==
    /\ pc = "dispatch"
    /\ LET h == handle_message(res.frame)
       IN IF h.write = <<>>
          THEN /\ written' = written
               /\ pc' = IF h.stop THEN "done" ELSE "read"
          ELSE \E ok \in BOOLEAN :
                 /\ written' = Append(written, [frame |-> h.write[1], ok |-> ok])
                 /\ pc' = IF h.stop \/ ~ok THEN "done" ELSE "read"
    /\ UNCHANGED <<max_payload_size, tasks, fragments, op_code, res, wire, delivered,
                   arg, ret, sink, hsvars>>

Next == ReadFrame \/ Dispatch

Spec == Init /\ [][Next]_vars

\* The loop with its steps taken: the task of handle_connection is polled
\* whenever its read or write can complete (main.rs 18-20), and a read on a
\* source that has ended completes at once.
SpecLive == Spec /\ WF_vars(Next)

\* ------------------------------------------------- new_close_reply alone
InitCloseReply ==
    /\ pc = "call"
    /\ arg \in CloseArgs
    /\ ret = OkNone
    /\ max_payload_size \in MaxPayloadSizes
    /\ tasks = <<>>
    /\ fragments = NoFragment
    /\ op_code = Close
    /\ res = OkNone
    /\ wire = <<>>
    /\ delivered = <<>>
    /\ written = <<>>
    /\ sink = <<>>
    /\ NoHandshake

CallCloseReply ==
    /\ pc = "call"
    /\ ret' = new_close_reply(arg)
    /\ pc' = "return"
    /\ UNCHANGED <<max_payload_size, tasks, fragments, op_code, res, wire, delivered,
                   written, arg, sink, hsvars>>

NextCloseReply == CallCloseReply

SpecCloseReply == InitCloseReply /\ [][NextCloseReply]_vars

\* ------------------------------------------------------- read_frame alone
InitReadFrame ==
    /\ pc = "decode"
    /\ arg \in DecoderInputs
    /\ ret = OkNone
    /\ max_payload_size \in DecoderMaxima
    /\ tasks = <<>>
    /\ fragments = NoFragment
    /\ op_code = Close
    /\ res = OkNone
    /\ wire = <<>>
    /\ delivered = <<>>
    /\ written = <<>>
    /\ sink = <<>>
    /\ NoHandshake

\* Reader::read_frame on a source that delivers arg and then ends
CallReadFrame ==
    /\ pc = "decode"
    /\ ret' = read_frame(arg, max_payload_size)
    /\ pc' = "decoded"
    /\ UNCHANGED <<max_payload_size, tasks, fragments, op_code, res, wire, delivered,
                   written, arg, sink, hsvars>>

NextReadFrame == CallReadFrame

SpecReadFrame == InitReadFrame /\ [][NextReadFrame]_vars

\* ------------------------------------------------------ write_frame alone
InitWriteFrame ==
    /\ pc = "encode"
    /\ arg \in EncFrames
    /\ ret = OkNone
    /\ max_payload_size \in DecoderMaxima
    /\ tasks = <<>>
    /\ fragments = NoFragment
    /\ op_code = Close
    /\ res = OkNone
    /\ wire = <<>>
    /\ delivered = <<>>
    /\ written = <<>>
    /\ sink = <<>>
    /\ NoHandshake

\* Writer::write_frame: its calls in order, up to the first that fails with
\* an I/O error, if one does (`?` at writer.rs 14-27)
CallWriteFrame ==
    /\ pc = "encode"
    /\ LET calls == write_frame(arg)
       IN \E n \in 0..Len(calls) :
            /\ sink' = SubSeq(calls, 1, n)
            /\ ret' = IF n = Len(calls) THEN OkUnit ELSE Err("Io")
    /\ pc' = "encoded"
    /\ UNCHANGED <<max_payload_size, tasks, fragments, op_code, res, wire, delivered,
                   written, arg, hsvars>>

\* Reader::read_frame on the bytes write_frame has written
ReadBack ==
    /\ pc = "encoded"
    /\ ret = OkUnit
    /\ ret' = read_frame(SinkBytes(sink), max_payload_size)
    /\ pc' = "read_back"
    /\ UNCHANGED <<max_payload_size, tasks, fragments, op_code, res, wire, delivered,
                   written, arg, sink, hsvars>>

NextWriteFrame == CallWriteFrame \/ ReadBack

SpecWriteFrame == InitWriteFrame /\ [][NextWriteFrame]_vars

\* ------------------------------------------------- the whole connection
\* handle_connection from its start (handler.rs 12-27): the client's
\* preamble is chosen, the reader of the loop has the configured maximum.
InitConn ==
    /\ pc = "request_line"
    /\ input_lines \in Preambles
    /\ eof = FALSE
    /\ headers = NoHeaders
    /\ hs = NotYet
    /\ sent = <<>>
    /\ max_payload_size = ConfiguredMax
    /\ tasks = <<>>
    /\ fragments = NoFragment
    /\ op_code = Close
    /\ res = OkNone
    /\ wire = <<>>
    /\ delivered = <<>>
    /\ written = <<>>
    /\ arg = <<>>
    /\ ret = OkNone
    /\ sink = <<>>

\* reader.read_line: the next line, or nothing when the input has ended
NextLine == IF input_lines = <<>> THEN <<>> ELSE Head(input_lines)

\* read_http_headers, the request line (handshake.rs 33-41): read_line fails
\* with an I/O error, or the line read begins with GET or does not.
ReadRequestLine ==
    /\ pc = "request_line"
    /\ \/ /\ hs' = Io
          /\ pc' = "done"
          /\ UNCHANGED <<input_lines, eof>>
       \/ LET request_line == NextLine
          IN /\ input_lines' = IF input_lines = <<>> THEN <<>> ELSE Tail(input_lines)
             /\ eof' = (input_lines = <<>>)
             /\ IF ~starts_with(trim_end(request_line), GET)
                THEN hs' = InvalidHeader("Must be GET request") /\ pc' = "done"
                ELSE hs' = hs /\ pc' = "header_line"
    /\ UNCHANGED <<headers, sent, max_payload_size, tasks, fragments, op_code, res,
                   wire, delivered, written, arg, ret, sink>>

\* read_http_headers, one turn of its loop (handshake.rs 43-57): read_line
\* fails, or the input has ended or the line is blank and the headers are
\* complete, or the line is split at its first ':' and stored, or it has
\* no ':'.
ReadHeaderLine ==
    /\ pc = "header_line"
    /\ \/ /\ hs' = Io
          /\ pc' = "done"
          /\ UNCHANGED <<input_lines, eof, headers>>
       \/ LET line == NextLine
              bytes_reads == Len(line)
              kv == split_once(line)
          IN /\ input_lines' = IF input_lines = <<>> THEN <<>> ELSE Tail(input_lines)
             /\ eof' = (eof \/ input_lines = <<>>)
             /\ IF bytes_reads = 0 \/ trim(line) = <<>>
                THEN hs' = hs /\ pc' = "validate" /\ headers' = headers
                ELSE IF kv.some
                THEN /\ headers' = insert(headers, trim(kv.key), trim(kv.value))
                     /\ hs' = hs
                     /\ pc' = "header_line"
                ELSE /\ hs' = InvalidHeader("Invalid header format")
                     /\ pc' = "done"
                     /\ headers' = headers
    /\ UNCHANGED <<sent, max_payload_size, tasks, fragments, op_code, res,
                   wire, delivered, written, arg, ret, sink>>

\* A mutant of ValidateHeaders: handle_connection does not return when the
\* handshake has failed.
ValidateHeaders_noreturn ==
    /\ pc = "validate"
    /\ LET v == validate_headers(headers)
       IN IF v = HsOk
          THEN hs' = hs /\ pc' = "send_response"
          ELSE hs' = v /\ pc' = "read"
    /\ UNCHANGED <<input_lines, eof, headers, sent, max_payload_size, tasks, fragments,
                   op_code, res, wire, delivered, written, arg, ret, sink>>

\* do_handshake, validate_headers(&headers)? (handshake.rs 25), and the
\* return of handle_connection when it fails (handler.rs 21-24)
ValidateHeaders ==
    /\ pc = "validate"
    /\ LET v == validate_headers(headers)
       IN IF v = HsOk
          THEN hs' = hs /\ pc' = "send_response"
          ELSE hs' = v /\ pc' = "done"
    /\ UNCHANGED <<input_lines, eof, headers, sent, max_payload_size, tasks, fragments,
                   op_code, res, wire, delivered, written, arg, ret, sink>>

\* do_handshake, send_response (handshake.rs 26, 84-92), and on Ok the start
\* of the loop (handler.rs 17-29): the response for the key is written and
\* flushed; when that fails, none or a part of it has reached the
\* transport.  The map of headers ends with do_handshake; the model keeps
\* it where the handshake failed.
SendResponse ==
    /\ pc = "send_response"
    /\ \/ /\ sent' = Append(sent, [key |-> headers[SecWebSocketKey],
                                   ok |-> TRUE, reached |-> "all"])
          /\ hs' = HsOk
          /\ headers' = NoHeaders
          /\ pc' = "read"
       \/ \E reached \in {"none", "part"} :
            /\ sent' = Append(sent, [key |-> headers[SecWebSocketKey],
                                     ok |-> FALSE, reached |-> reached])
            /\ hs' = Io
            /\ headers' = headers
            /\ pc' = "done"
    /\ UNCHANGED <<input_lines, eof, max_payload_size, tasks, fragments, op_code, res,
                   wire, delivered, written, arg, ret, sink>>

NextHandshake ==
    ReadRequestLine \/ ReadHeaderLine \/ ValidateHeaders \/ SendResponse

\* do_handshake alone
SpecHandshake == InitConn /\ [][NextHandshake]_vars

NextConn ==
    \/ ReadRequestLine
    \/ ReadHeaderLine
    \/ ValidateHeaders
    \/ SendResponse
    \/ ReadFrame
    \/ Dispatch

\* handle_connection: the handshake, then the loop
SpecConn == InitConn /\ [][NextConn]_vars

\* ---------------------------------------------- generate_response alone
InitResponse ==
    /\ pc = "respond"
    /\ arg \in ResponseKeys
    /\ ret = <<>>
    /\ max_payload_size = ConfiguredMax
    /\ tasks = <<>>
    /\ fragments = NoFragment
    /\ op_code = Close
    /\ res = OkNone
    /\ wire = <<>>
    /\ delivered = <<>>
    /\ written = <<>>
    /\ sink = <<>>
    /\ NoHandshake

\* let response = generate_response(&headers["Sec-WebSocket-Key"])
\* (handshake.rs 88)
CallGenerateResponse ==
    /\ pc = "respond"
    /\ ret' = generate_response(arg)
    /\ pc' = "responded"
    /\ UNCHANGED <<max_payload_size, tasks, fragments, op_code, res, wire,
                   delivered, written, arg, sink, hsvars>>

SpecResponse == InitResponse /\ [][CallGenerateResponse]_vars

\* ------------------------------------------------ main: many connections
\* read_http_headers on the lines the reader delivers (handshake.rs 30-60):
\* the map of headers, or the error.
RECURSIVE header_loop(_, _)
header_loop(lines, hdrs) ==
    LET line == IF lines = <<>> THEN <<>> ELSE Head(lines)
        kv == split_once(line)
    IN IF Len(line) = 0 \/ trim(line) = <<>> THEN [tag |-> "Ok", map |-> hdrs]
       ELSE IF kv.some
       THEN header_loop(Tail(lines), insert(hdrs, trim(kv.key), trim(kv.value)))
       ELSE InvalidHeader("Invalid header format")

read_http_headers(lines) ==
    LET request_line == IF lines = <<>> THEN <<>> ELSE Head(lines)
    IN IF ~starts_with(trim_end(request_line), GET)
       THEN InvalidHeader("Must be GET request")
       ELSE header_loop(Tail(lines), NoHeaders)

\* do_handshake (handshake.rs 20-28) on the lines of the preamble, where
\* `ok` says whether send_response could write the response
do_handshake(lines, ok) ==
    LET h == read_http_headers(lines)
    IN IF h.tag # "Ok" THEN h
       ELSE IF validate_headers(h.map) # HsOk THEN validate_headers(h.map)
       ELSE IF ok THEN HsOk ELSE Io

\* The preambles the connections send: a complete one, and one without the
\* Connection header
TaskPreambles ==
    { <<ReqGet, HostLine, UpgradeLine, ConnectionLine, KeyLine, BlankLine>>,
      <<ReqGet, HostLine, UpgradeLine, KeyLine, BlankLine>> }

\* The frames the connections send, and the end of the input
TaskInputs ==
    { ClientFrame(FALSE, 0, Text, TRUE, <<65, 226>>),
      ClientFrame(TRUE, 0, Continuation, TRUE, <<130, 172>>),
      ClientFrame(TRUE, 0, Ping, TRUE, <<112>>),
      <<>> }

\* The locals of handle_connection when the task is spawned (main.rs 18-20,
\* handler.rs 12-15) with the history of the frames it wrote, and beside
\* them (history) the locals of a handle_connection that is given the same
\* input with no other task running
NewTask ==
    [pc |-> "handshake", fragments |-> NoFragment, op_code |-> Close,
     res |-> OkNone, frames |-> 0, written |-> <<>>,
     alone |-> [pc |-> "handshake", fragments |-> NoFragment,
                op_code |-> Close, res |-> OkNone, frames |-> 0,
                written |-> <<>>]]

\* handle_connection, the handshake and Reader::new (handler.rs 17-27)
task_handshake(t, lines, ok) ==
    [t EXCEPT !.pc = IF do_handshake(lines, ok) = HsOk THEN "read" ELSE "done"]

\* handle_connection, reader.read (handler.rs 30-35; reader.rs 132-143)
task_read(t, input) ==
    LET d == read_frame(input, ConfiguredMax)
    IN IF d.tag = "Err"
       THEN [t EXCEPT !.res = d, !.pc = "done"]
       ELSE LET a == accumulate(t.fragments, t.op_code, d.frame)
            IN [t EXCEPT !.fragments = a.fragments,
                         !.op_code = a.op_code,
                         !.res = a.res,
                         !.frames = @ + 1,
                         !.pc = CASE a.res.tag = "Some" -> "dispatch"
                                  [] a.res.tag = "None" -> "read"
                                  [] OTHER -> "done"]

\* handle_connection, the match on the message (handler.rs 37-66)
task_dispatch(t, ok) ==
    LET h == handle_message(t.res.frame)
    IN IF h.write = <<>>
       THEN [t EXCEPT !.pc = IF h.stop THEN "done" ELSE "read"]
       ELSE [t EXCEPT !.written = Append(@, [frame |-> h.write[1], ok |-> ok]),
                      !.pc = IF h.stop \/ ~ok THEN "done" ELSE "read"]

\* main before the first accept (main.rs 14)
InitMain ==
    /\ pc = "accept"
    /\ max_payload_size = ConfiguredMax
    /\ tasks = <<>>
    /\ fragments = NoFragment
    /\ op_code = Close
    /\ res = OkNone
    /\ wire = <<>>
    /\ delivered = <<>>
    /\ written = <<>>
    /\ arg = <<>>
    /\ ret = OkNone
    /\ sink = <<>>
    /\ NoHandshake

\* What the steps of main and of its tasks leave alone
MainUnchanged ==
    UNCHANGED <<pc, max_payload_size, fragments, op_code, res, wire, delivered,
                written, arg, ret, sink, hsvars>>

\* main, listener.accept and tokio::spawn (main.rs 16-20): the stream is
\* moved into the new task
Accept ==
    /\ pc = "accept"
    /\ Len(tasks) < MaxConns
    /\ tasks' = Append(tasks, NewTask)
    /\ MainUnchanged

TaskHandshake(c) ==
    /\ tasks[c].pc = "handshake"
    /\ \E lines \in TaskPreambles, ok \in BOOLEAN :
         tasks' = [tasks EXCEPT ![c] =
                     [task_handshake(tasks[c], lines, ok) EXCEPT
                        !.alone = task_handshake(tasks[c].alone, lines, ok)]]
    /\ MainUnchanged

\* A mutant of TaskRead: the tasks share the Fragments of the first
\* connection.
TaskRead_shared(c) ==
    /\ tasks[c].pc = "read"
    /\ \E input \in (IF tasks[c].frames < MaxTaskFrames THEN TaskInputs ELSE EndInputs) :
         LET t == task_read([tasks[c] EXCEPT !.fragments = tasks[1].fragments,
                                             !.op_code = tasks[1].op_code], input)
             own == [tasks EXCEPT ![c] =
                       [t EXCEPT !.alone = task_read(tasks[c].alone, input)]]
         IN tasks' = [own EXCEPT ![1].fragments = t.fragments,
                                 ![1].op_code = t.op_code]
    /\ MainUnchanged

TaskRead(c) ==
    /\ tasks[c].pc = "read"
    /\ \E input \in (IF tasks[c].frames < MaxTaskFrames THEN TaskInputs ELSE EndInputs) :
         tasks' = [tasks EXCEPT ![c] =
                     [task_read(tasks[c], input) EXCEPT
                        !.alone = task_read(tasks[c].alone, input)]]
    /\ MainUnchanged

TaskDispatch(c) ==
    /\ tasks[c].pc = "dispatch"
    /\ \E ok \in BOOLEAN :
         tasks' = [tasks EXCEPT ![c] =
                     [task_dispatch(tasks[c], ok) EXCEPT
                        !.alone = task_dispatch(tasks[c].alone, ok)]]
    /\ MainUnchanged

\* main accepts, or one task takes a step, in any order (the runtime of
\* #[tokio::main], main.rs 12)
NextMain ==
    \/ Accept
    \/ \E c \in DOMAIN tasks : TaskHandshake(c) \/ TaskRead(c) \/ TaskDispatch(c)

\* main and the tasks it spawns
SpecMain == InitMain /\ [][NextMain]_vars

\* ============================================================ properties
\* What the wire history says, independently of the reassembler's state.

\* A frame that starts a fragmented message
StartFrame(f) == f.opcode \in {Text, Binary} /\ ~f.fin

\* A Continuation that ends a fragmented message
FinalFrame(f) == f.opcode = Continuation /\ f.fin

\* The start frames before frame p of w
Starts(w, p) == {i \in 1..(p - 1) : StartFrame(w[i])}

\* A message is in progress when frame p of w arrives: a start frame came
\* before it and no final Continuation since.
Open(w, p) ==
    \E i \in Starts(w, p) : \A k \in (i + 1)..(p - 1) : ~FinalFrame(w[k])

\* The start frame of the message in progress when frame p arrives
StartIdx(w, p) == CHOOSE i \in Starts(w, p) : \A j \in Starts(w, p) : j <= i

\* The payloads of the data frames i..p of w, concatenated in order
RECURSIVE MsgData(_, _, _)
MsgData(w, i, p) ==
    IF i > p THEN <<>>
    ELSE (IF is_control(w[i].opcode) THEN <<>> ELSE w[i].data) \o MsgData(w, i + 1, p)

IsPrefix(a, b) == Len(a) <= Len(b) /\ SubSeq(b, 1, Len(a)) = a

\* The frames Reader::read returned for frame p of the wire
DeliveredAt(p) == {j \in 1..Len(delivered) : delivered[j].at = p}

\* C1: a start frame (Text or Binary, fin clear) followed by Continuation
\* frames of which only the last has fin set, the concatenated payload being
\* valid UTF-8 for Text, makes Reader::read return exactly one frame, at the
\* last Continuation: fin set, the start frame's opcode, the payloads
\* concatenated in order.  Nothing is returned for the message before.
C1_ReassembledMessage ==
    \A p \in 1..Len(wire) :
        (wire[p].opcode = Continuation /\ Open(wire, p)) =>
            LET i == StartIdx(wire, p)
                data == MsgData(wire, i, p)
            IN IF ~wire[p].fin
               THEN DeliveredAt(p) = {}
               ELSE (wire[i].opcode = Binary \/ is_utf8(data)) =>
                      /\ \E j \in 1..Len(delivered) :
                           /\ DeliveredAt(p) = {j}
                           /\ delivered[j].frame =
                                [fin |-> TRUE, opcode |-> wire[i].opcode,
                                 len |-> Len(data), data |-> data]
                      /\ \A k \in i..(p - 1) : ~is_control(wire[k].opcode) =>
                                                 DeliveredAt(k) = {}

\* C1's case: a 3-byte code point cut twice, over three frames, is returned
\* whole as one Text message.
C1_Witness ==
    /\ Len(wire) = 3
    /\ wire[1].opcode = Text /\ ~wire[1].fin /\ Len(wire[1].data) = 1
    /\ wire[2].opcode = Continuation /\ ~wire[2].fin /\ Len(wire[2].data) = 1
    /\ wire[3].opcode = Continuation /\ wire[3].fin
    /\ Len(delivered) = 1
    /\ delivered[1].frame = new(Text, <<226, 130, 172>>)

\* C2: a sequence of Text/Continuation frames whose concatenated payload is
\* not valid UTF-8 is never returned as a Text message: the frame that would
\* complete it, if it is reached at all, ends in InvalidUTF8.
C2_InvalidTextRefused ==
    \A p \in 1..Len(wire) :
        LET whole == wire[p].opcode = Text /\ wire[p].fin /\ ~Open(wire, p)
            last == FinalFrame(wire[p]) /\ Open(wire, p)
                       /\ wire[StartIdx(wire, p)].opcode = Text
            data == IF whole THEN wire[p].data
                    ELSE MsgData(wire, StartIdx(wire, p), p)
        IN ((whole \/ last) /\ ~is_utf8(data)) =>
              /\ p = Len(wire)
              /\ res = Err("InvalidUTF8")
              /\ DeliveredAt(p) = {}

\* C3: no reassembled message and no fragment buffer is longer than
\* max_payload_size.
C3_MaxPayloadSize ==
    /\ \A j \in 1..Len(delivered) :
           Len(delivered[j].frame.data) <= max_payload_size
    /\ Len(fragments.buffer) <= max_payload_size

\* C4: while a message is in progress, a Text or Binary frame, with fin set
\* or clear, ends in InvalidFragment, and the message in progress stays as it
\* is.
C4_NoRestart ==
    [][(/\ Len(wire') = Len(wire) + 1
        /\ fragments.kind # "None"
        /\ Last(wire').opcode \in {Text, Binary})
          => (res' = Err("InvalidFragment") /\ fragments' = fragments)]_vars

\* C5: a Continuation with no message in progress, at the start of the
\* connection or after a reassembled message was returned, ends in
\* InvalidContinuation; returning a reassembled message leaves the fragment
\* state None, its buffer gone.
C5_InvalidContinuation ==
    /\ \A p \in 1..Len(wire) :
           (wire[p].opcode = Continuation /\ ~Open(wire, p)) =>
               (p = Len(wire) /\ res = Err("InvalidContinuation")
                  /\ DeliveredAt(p) = {})
    /\ (Len(wire) > 0 /\ FinalFrame(Last(wire)) /\ res.tag = "Some") =>
           fragments = NoFragment

\* C5's case: a Continuation right after a reassembled message was returned
C5_Witness ==
    /\ Len(wire) = 3
    /\ StartFrame(wire[1])
    /\ FinalFrame(wire[2])
    /\ DeliveredAt(2) # {}
    /\ wire[3].opcode = Continuation
    /\ res = Err("InvalidContinuation")

\* C6: a control frame between the fragments of a message is returned by
\* Reader::read as it is, at its place on the wire, hence before the message
\* around it, which is returned at its final Continuation; the data of the
\* message is made of the payloads of its data frames only.
C6_ControlInterleaved ==
    /\ \A p \in 1..Len(wire) :
           is_control(wire[p].opcode) =>
               \E j \in 1..Len(delivered) :
                   /\ DeliveredAt(p) = {j}
                   /\ delivered[j].frame = wire[p]
    /\ \A j \in 1..Len(delivered) :
           /\ delivered[j].at \in 1..Len(wire)
           /\ j > 1 => delivered[j - 1].at < delivered[j].at
           /\ ~is_control(delivered[j].frame.opcode) =>
                LET p == delivered[j].at
                IN /\ wire[p].fin
                   /\ ~is_control(wire[p].opcode)
                   /\ wire[p].opcode = Continuation =>
                        /\ Open(wire, p)
                        /\ IsPrefix(delivered[j].frame.data,
                                    MsgData(wire, StartIdx(wire, p), p))

\* C6's case: Text "A" (fin clear), Ping "p", Continuation "A" (fin set)
\* gives the Ping, then the Text message "AA".
C6_Witness ==
    /\ Len(wire) = 3
    /\ wire[1] = Frame(FALSE, Text, <<65>>)
    /\ wire[2] = Frame(TRUE, Ping, <<112>>)
    /\ wire[3] = Frame(TRUE, Continuation, <<65>>)
    /\ Len(delivered) = 2
    /\ delivered[1] = [frame |-> new(Ping, <<112>>), at |-> 2]
    /\ delivered[2] = [frame |-> new(Text, <<65, 65>>), at |-> 3]

\* The code of a close payload of two bytes or more
CodeOf(data) == 256 * data[1] + data[2]

\* The codes a peer may send in a Close frame
AllowedCodes == (1000..1003) \cup (1007..1013) \cup (3000..4999)

\* C7: for a Close payload of two bytes or more whose code is 1005, 1006,
\* 1015, reserved (1016-2999) or out of range (outside 1000-1003, 1007-1013,
\* 3000-4999), new_close_reply returns a Close frame whose payload is the code
\* 1002 followed by the reason bytes as they came.
C7_DisallowedCode ==
    (pc = "return" /\ Len(arg) >= 2 /\ CodeOf(arg) \notin AllowedCodes) =>
        ret = OkSome([fin |-> TRUE, opcode |-> Close, len |-> Len(arg),
                      data |-> <<3, 234>> \o SubSeq(arg, 3, Len(arg))])

\* C7's case: code 1005 with a reason that is not UTF-8
C7_Witness ==
    /\ pc = "return"
    /\ arg = <<3, 237, 172>>
    /\ ret.tag = "Some"
    /\ ret.frame.data = <<3, 234, 172>>

\* C8: with an allowed code new_close_reply gives an empty Close frame for an
\* empty payload, InvalidCloseFrame for one byte, and for two bytes or more
\* the payload as it came when the bytes after the code are valid UTF-8 (or
\* absent), InvalidUTF8 otherwise.
C8_AllowedCode ==
    pc = "return" =>
        /\ Len(arg) = 0 =>
             ret = OkSome([fin |-> TRUE, opcode |-> Close, len |-> 0, data |-> <<>>])
        /\ Len(arg) = 1 => ret = Err("InvalidCloseFrame")
        /\ (Len(arg) >= 2 /\ CodeOf(arg) \in AllowedCodes) =>
             IF is_utf8(SubSeq(arg, 3, Len(arg)))
             THEN ret = OkSome([fin |-> TRUE, opcode |-> Close, len |-> Len(arg),
                                data |-> arg])
             ELSE ret = Err("InvalidUTF8")

\* C8's case: code 1000 with a reason cut inside a code point
C8_Witness ==
    /\ pc = "return"
    /\ arg = <<3, 232, 65, 226>>
    /\ ret = Err("InvalidUTF8")

\* The messages handle_connection has dealt with
Dispatched ==
    IF pc = "dispatch" THEN SubSeq(delivered, 1, Len(delivered) - 1) ELSE delivered

\* The number of messages in ms that are not a Pong
RECURSIVE CountReplied(_)
CountReplied(ms) ==
    IF ms = <<>> THEN 0
    ELSE (IF Last(ms).frame.opcode = Pong THEN 0 ELSE 1)
           + CountReplied(SubSeq(ms, 1, Len(ms) - 1))

\* C9: on a Close message the dispatcher writes at most one frame, the close
\* reply, and writes it exactly when new_close_reply succeeds; then the loop
\* ends, whether or not the write succeeded: nothing more is read and nothing
\* more is written.
C9_CloseEndsLoop ==
    \A j \in 1..Len(delivered) :
        delivered[j].frame.opcode = Close =>
            LET reply == new_close_reply(delivered[j].frame.data)
                before == CountReplied(SubSeq(delivered, 1, j - 1))
            IN /\ j = Len(delivered)
               /\ delivered[j].at = Len(wire)
               /\ res = OkSome(delivered[j].frame)
               /\ pc \in {"dispatch", "done"}
               /\ pc = "dispatch" => Len(written) = before
               /\ pc = "done" =>
                    IF reply.tag = "Some"
                    THEN /\ Len(written) = before + 1
                         /\ Last(written).frame = reply.frame
                    ELSE Len(written) = before

\* C9's case: a Close after a Ping; the Pong was written, the write of the
\* close reply failed, the loop has ended.
C9_Witness ==
    /\ pc = "done"
    /\ Len(delivered) = 2
    /\ delivered[1].frame.opcode = Ping
    /\ delivered[2].frame.opcode = Close
    /\ Len(written) = 2
    /\ written[2].frame.opcode = Close
    /\ ~written[2].ok

\* The frames the dispatcher owes for the messages ms, Close apart: the
\* message itself for Text and Binary, a Pong with the same payload for a
\* Ping, nothing for a Pong.
RECURSIVE Replies(_)
Replies(ms) ==
    IF ms = <<>> THEN <<>>
    ELSE LET f == ms[1].frame
             r == CASE f.opcode \in {Text, Binary} ->
                         <<[fin |-> TRUE, opcode |-> f.opcode,
                            len |-> Len(f.data), data |-> f.data]>>
                    [] f.opcode = Ping ->
                         <<[fin |-> TRUE, opcode |-> Pong,
                            len |-> Len(f.data), data |-> f.data]>>
                    [] OTHER -> <<>>
         IN r \o Replies(SubSeq(ms, 2, Len(ms)))

\* The frames of the write_frame calls ws that are not Close frames
RECURSIVE NonCloseFrames(_)
NonCloseFrames(ws) ==
    IF ws = <<>> THEN <<>>
    ELSE (IF ws[1].frame.opcode = Close THEN <<>> ELSE <<ws[1].frame>>)
           \o NonCloseFrames(SubSeq(ws, 2, Len(ws)))

\* C10: for the messages the reader delivered, the dispatcher writes one
\* frame per Text or Binary message (same opcode, same data, fin set), one
\* Pong with the same payload per Ping, nothing per Pong, in the order of the
\* messages; every write before the last succeeded, and a failed write ends
\* the loop.
C10_RepliesInOrder ==
    /\ NonCloseFrames(written) = Replies(Dispatched)
    /\ \A k \in 1..Len(written) :
           ~written[k].ok => (k = Len(written) /\ pc = "done")

\* C10's case: Text "A" (fin clear), Ping "p", Continuation "A" (fin set):
\* the Pong "p" is written before the Text "AA".
C10_Witness ==
    /\ Len(wire) = 3
    /\ StartFrame(wire[1]) /\ wire[2].opcode = Ping /\ FinalFrame(wire[3])
    /\ Len(written) = 2
    /\ written[1] = [frame |-> new(Pong, <<112>>), ok |-> TRUE]
    /\ written[2] = [frame |-> new(Text, <<65, 65>>), ok |-> TRUE]
    /\ pc = "read"


\* ------------------------------------------- what the bytes of a frame say
\* Read off the input of read_frame, independently of the decoder.
HdrFin(input) == input[1] >= 128
HdrRsv(input) == (input[1] \div 16) % 8
HdrOpcode(input) == input[1] % 16
HdrMask(input) == input[2] >= 128
HdrLen7(input) == input[2] % 128

\* The number of extended length bytes
HdrExt(input) == CASE HdrLen7(input) = 126 -> 2
                   [] HdrLen7(input) = 127 -> 8
                   [] OTHER -> 0

\* The input holds the two header bytes and the extended length
HdrWhole(input) == Len(input) >= 2 /\ Len(input) >= 2 + HdrExt(input)

\* The big-endian number in s[from..to]
RECURSIVE BigEndian(_, _, _)
BigEndian(s, from, to) ==
    IF to < from THEN 0 ELSE 256 * BigEndian(s, from, to - 1) + s[to]

\* The payload length the header declares
DeclaredLen(input) ==
    IF HdrExt(input) = 0 THEN HdrLen7(input)
    ELSE BigEndian(input, 3, 2 + HdrExt(input))

\* Where the payload starts: after the header and, when MASK=1, the key
BodyAt(input) == 2 + HdrExt(input) + (IF HdrMask(input) THEN 4 ELSE 0)

\* A header no rule on the header refuses: reserved bits zero, a defined
\* opcode, control frames final, a Ping of at most 125 bytes
HdrAccepted(input) ==
    /\ HdrWhole(input)
    /\ HdrRsv(input) = 0
    /\ HdrOpcode(input) \in {0, 1, 2, 8, 9, 10}
    /\ (HdrOpcode(input) \in {8, 9, 10} => HdrFin(input))
    /\ ~(HdrOpcode(input) = 9 /\ DeclaredLen(input) > 125)

\* C15: a frame whose header is otherwise accepted and declares more than
\* max_payload_size bytes gives FrameTooLarge whether or not its payload
\* bytes are there to read, and one that declares exactly max_payload_size
\* bytes and brings them is accepted.
C15_TooLargeBeforeBody ==
    (pc = "decoded" /\ HdrAccepted(arg)) =>
        /\ DeclaredLen(arg) > max_payload_size => ret = Err("FrameTooLarge")
        /\ (/\ DeclaredLen(arg) = max_payload_size
            /\ Len(arg) >= BodyAt(arg) + DeclaredLen(arg)) => ret.tag = "Some"

\* C19 as stated: a returned frame has len = |data| = the declared length and
\* one of the six opcodes, and every header with a low nibble 3-7 or 11-15
\* gives InvalidOpCode.
C19_DecodedFrame ==
    pc = "decoded" =>
        /\ ret.tag = "Some" =>
             /\ ret.frame.len = Len(ret.frame.data)
             /\ ret.frame.len = DeclaredLen(arg)
             /\ ret.frame.opcode \in {0, 1, 2, 8, 9, 10}
        /\ (Len(arg) >= 2 /\ HdrOpcode(arg) \in (3..7) \cup (11..15)) =>
             ret = Err("InvalidOpCode")

\* C19 amended: a returned frame has len = |data| = the declared length and
\* one of the six opcodes; a header with a low nibble 3-7 or 11-15 gives no
\* frame: InvalidOpCode when its reserved bits are zero, ReservedBitsNotZero
\* when one is set.
C19_DecodedFrameRsv ==
    pc = "decoded" =>
        /\ ret.tag = "Some" =>
             /\ ret.frame.len = Len(ret.frame.data)
             /\ ret.frame.len = DeclaredLen(arg)
             /\ ret.frame.opcode \in {0, 1, 2, 8, 9, 10}
        /\ (Len(arg) >= 2 /\ HdrOpcode(arg) \in (3..7) \cup (11..15)) =>
             ret = IF HdrRsv(arg) = 0 THEN Err("InvalidOpCode")
                   ELSE Err("ReservedBitsNotZero")

\* C19's case: a masked frame with opcode 11 and no reserved bit is refused
C19_Witness ==
    /\ pc = "decoded"
    /\ arg = <<139, 129>> \o MaskKey \o <<118>>
    /\ ret = Err("InvalidOpCode")

\* C20: the data of a returned frame is, with MASK=1, the bytes after the
\* 4-byte key each XORed with key byte i mod 4, and with MASK=0 the bytes
\* right after the length, unchanged; an unmasked frame that breaks no
\* other rule is returned, not refused.
C20_MaskBit ==
    pc = "decoded" =>
        /\ ret.tag = "Some" =>
             LET key == 2 + HdrExt(arg)
                 at == BodyAt(arg)
             IN /\ at = key + (IF HdrMask(arg) THEN 4 ELSE 0)
                /\ Len(ret.frame.data) = DeclaredLen(arg)
                /\ \A i \in 1..DeclaredLen(arg) :
                     ret.frame.data[i] =
                       IF HdrMask(arg)
                       THEN Xor(arg[at + i], arg[key + ((i - 1) % 4) + 1])
                       ELSE arg[at + i]
        /\ (/\ Len(arg) >= 2 /\ ~HdrMask(arg)
            /\ HdrAccepted(arg)
            /\ Len(arg) >= BodyAt(arg) + DeclaredLen(arg)
            /\ ~(HdrOpcode(arg) = 8 /\ DeclaredLen(arg) = 1)
            /\ DeclaredLen(arg) <= max_payload_size) => ret.tag = "Some"

\* C20's case: "Hello" masked, the key used a second time for its fifth
\* byte, comes back as "Hello"
C20_Witness ==
    /\ pc = "decoded"
    /\ arg = <<129, 133>> \o MaskKey \o <<127, 159, 77, 81, 88>>
    /\ ret.tag = "Some"
    /\ ret.frame.data = Hello


\* C17 as stated: every frame with fin set, whatever its opcode and payload,
\* comes back from read_frame equal in fin, opcode and data when the bytes
\* write_frame wrote for it are read.
C17_RoundTrip ==
    (pc = "read_back" /\ arg.fin) =>
        /\ ret.tag = "Some"
        /\ ret.frame.fin = arg.fin
        /\ ret.frame.opcode = arg.opcode
        /\ ret.frame.data = arg.data

\* C17 amended: the frame comes back equal unless it is one the decoder
\* refuses: a Ping of more than 125 bytes (PingFrameTooLarge), a Close of
\* exactly one byte (InvalidCloseFrame) or, neither of these, a payload of
\* more than max_payload_size bytes (FrameTooLarge).
C17_RoundTripAccepted ==
    (pc = "read_back" /\ arg.fin) =>
        IF arg.opcode = Ping /\ Len(arg.data) > 125
        THEN ret = Err("PingFrameTooLarge")
        ELSE IF arg.opcode = Close /\ Len(arg.data) = 1
        THEN ret = Err("InvalidCloseFrame")
        ELSE IF Len(arg.data) > max_payload_size
        THEN ret = Err("FrameTooLarge")
        ELSE /\ ret.tag = "Some"
             /\ ret.frame.fin = arg.fin
             /\ ret.frame.opcode = arg.opcode
             /\ ret.frame.data = arg.data

\* C17's case: a Binary frame of 126 bytes, written with the 16-bit length
\* form, comes back as it was
C17_Witness ==
    /\ pc = "read_back"
    /\ arg = Frame(TRUE, Binary, Rep(65, 126))
    /\ SubSeq(SinkBytes(sink), 1, 4) = <<130, 126, 0, 126>>
    /\ ret = OkSome(arg)

\* C18: when write_frame returns Ok it has made only write_all calls and
\* then one flush, and the bytes written are: one byte 0x80 (fin) or 0, plus
\* the opcode, reserved bits zero; the length as one byte up to 125, as 126
\* and 2 big-endian bytes up to 65535, as 127 and 8 big-endian bytes above,
\* MASK clear; the payload unchanged.  A write that fails leaves a prefix of
\* these calls.
C18_Encoding ==
    pc = "encoded" =>
        LET n == Len(arg.data)
            out == SinkBytes(sink)
            hdr == IF n <= 125 THEN 2 ELSE IF n <= 65535 THEN 4 ELSE 10
        IN IF ret = OkUnit
           THEN /\ Last(sink) = Flush
                /\ \A i \in 1..(Len(sink) - 1) : sink[i].call = "write_all"
                /\ Len(out) = hdr + n
                /\ out[1] = (IF arg.fin THEN 128 ELSE 0) + arg.opcode
                /\ (out[1] \div 16) % 8 = 0
                /\ out[2] < 128
                /\ out[2] = (IF n <= 125 THEN n ELSE IF n <= 65535 THEN 126 ELSE 127)
                /\ (hdr > 2 => BigEndian(out, 3, hdr) = n)
                /\ SubSeq(out, hdr + 1, hdr + n) = arg.data
           ELSE /\ ret = Err("Io")
                /\ \A i \in 1..Len(sink) : sink[i].call = "write_all"
                /\ IsPrefix(out, <<(IF arg.fin THEN 128 ELSE 0) + arg.opcode>>
                                   \o (IF n <= 125 THEN <<n>>
                                       ELSE IF n <= 65535
                                       THEN <<126, n \div 256, n % 256>>
                                       ELSE <<127, 0, 0, 0, 0, 0,
                                              n \div 65536, (n \div 256) % 256,
                                              n % 256>>)
                                   \o arg.data)

\* C18's case: a Continuation frame of 126 bytes with fin clear goes out
\* behind a zero byte, 126 and two length bytes, and is flushed
C18_Witness ==
    /\ pc = "encoded"
    /\ ret = OkUnit
    /\ arg = Frame(FALSE, Continuation, Rep(65, 126))
    /\ SubSeq(SinkBytes(sink), 1, 5) = <<0, 126, 0, 126, 65>>
    /\ Len(SinkBytes(sink)) = 130
    /\ Last(sink) = Flush

\* ----------------------------------------------------------- the handshake
\* The line begins with GET
BeginsWithGet(line) ==
    Len(line) >= 3 /\ line[1] = "G" /\ line[2] = "E" /\ line[3] = "T"

\* The places of the line's ':'
Colons(line) == {i \in 1..Len(line) : line[i] = ":"}

\* C12: validate_headers, on the map it is given: MissingHeader names the
\* first of Sec-WebSocket-Key, Upgrade, Connection that is not a key of the
\* map in exactly this spelling; with all three there, the Upgrade value
\* lowercased must be websocket, then the Connection value lowercased
\* upgrade, each with its own InvalidHeader; otherwise validation succeeds
\* and the response is sent next, whatever other headers there are.
C12_Validation ==
    [][pc = "validate" =>
         IF SecWebSocketKey \notin DOMAIN headers
         THEN hs' = MissingHeader(SecWebSocketKey) /\ pc' = "done"
         ELSE IF Upgrade \notin DOMAIN headers
         THEN hs' = MissingHeader(Upgrade) /\ pc' = "done"
         ELSE IF Connection \notin DOMAIN headers
         THEN hs' = MissingHeader(Connection) /\ pc' = "done"
         ELSE IF to_lowercase(headers[Upgrade]) # websocket
         THEN hs' = InvalidHeader("Upgrade header must be websocket") /\ pc' = "done"
         ELSE IF to_lowercase(headers[Connection]) # upgrade
         THEN hs' = InvalidHeader("Connection header must be upgrade") /\ pc' = "done"
         ELSE hs' = NotYet /\ pc' = "send_response"]_vars

\* C12's case: the key is there, Upgrade only under the name "upgrade" and
\* Connection not at all: the header reported missing is Upgrade
C12_Witness ==
    /\ pc = "done"
    /\ hs = MissingHeader(Upgrade)
    /\ SecWebSocketKey \in DOMAIN headers
    /\ to_lowercase(Upgrade) \in DOMAIN headers
    /\ Connection \notin DOMAIN headers

\* C13: a request line that does not begin with GET gives InvalidHeader
\* ("Must be GET request") with no line read after it; after that each line
\* read either ends the headers (it is empty but for blanks, or the input
\* has ended), or has no ':' and gives InvalidHeader("Invalid header
\* format"), or puts into the map the text before its first ':' with the
\* text after it, both trimmed, and changes no other entry.
C13_Preamble ==
    [][/\ (pc = "request_line" /\ hs' # Io) =>
             /\ input_lines' = (IF input_lines = <<>> THEN <<>> ELSE Tail(input_lines))
             /\ headers' = NoHeaders
             /\ IF BeginsWithGet(NextLine)
                THEN pc' = "header_line" /\ hs' = NotYet
                ELSE pc' = "done" /\ hs' = InvalidHeader("Must be GET request")
       /\ (pc = "header_line" /\ hs' # Io) =>
             LET line == NextLine
             IN IF trim(line) = <<>>
                THEN pc' = "validate" /\ headers' = headers /\ hs' = NotYet
                ELSE IF Colons(line) = {}
                THEN /\ pc' = "done"
                     /\ hs' = InvalidHeader("Invalid header format")
                     /\ headers' = headers
                ELSE \E i \in Colons(line) :
                       /\ \A j \in Colons(line) : i <= j
                       /\ pc' = "header_line" /\ hs' = NotYet
                       /\ LET key == trim(SubSeq(line, 1, i - 1))
                          IN /\ DOMAIN headers' = (DOMAIN headers) \cup {key}
                             /\ headers'[key] = trim(SubSeq(line, i + 1, Len(line)))
                             /\ \A k \in (DOMAIN headers) \ {key} :
                                  headers'[k] = headers[k]]_vars

\* C13's case: the Host line has been read and its value has a ':' in it
C13_Witness ==
    /\ pc = "header_line"
    /\ <<"H", "o", "s", "t">> \in DOMAIN headers
    /\ Colons(headers[<<"H", "o", "s", "t">>]) # {}
    /\ Len(headers[<<"H", "o", "s", "t">>]) = 14

\* C14 as stated: when do_handshake has failed nothing of the response has
\* been written, no frame has been read, dispatched or written and the
\* handler has returned; send_response is called at most once.
C14_NothingWritten ==
    /\ Len(sent) <= 1
    /\ hs.tag = "Err" =>
         /\ \A i \in 1..Len(sent) : sent[i].reached = "none"
         /\ wire = <<>> /\ delivered = <<>> /\ written = <<>>
         /\ pc = "done"

\* C14 amended: when do_handshake has failed, no frame has been read,
\* dispatched or written and the handler has returned; nothing of the
\* response has been written unless the failure is the I/O error of writing
\* it, and then it was not written whole.  send_response is called at most
\* once, after parsing and validation have succeeded, and frames are read
\* and written only after it returned Ok.
C14_FailedHandshake ==
    /\ [](/\ Len(sent) <= 1
          /\ hs.tag = "Err" =>
               /\ wire = <<>> /\ delivered = <<>> /\ written = <<>>
               /\ pc = "done"
               /\ \/ sent = <<>>
                  \/ hs = Io /\ ~sent[1].ok /\ sent[1].reached \in {"none", "part"}
          /\ (wire # <<>> \/ written # <<>> \/ pc \in {"read", "dispatch"}) =>
               /\ hs = HsOk
               /\ Len(sent) = 1 /\ sent[1].ok /\ sent[1].reached = "all")
    /\ [][sent' # sent =>
            /\ pc = "send_response"
            /\ {SecWebSocketKey, Upgrade, Connection} \subseteq DOMAIN headers
            /\ to_lowercase(headers[Upgrade]) = websocket
            /\ to_lowercase(headers[Connection]) = upgrade]_vars

\* C14's case: the Connection header is a list of tokens, the handshake has
\* failed and the handler has returned with nothing sent
C14_Witness ==
    /\ pc = "done"
    /\ hs = InvalidHeader("Connection header must be upgrade")
    /\ sent = <<>>
    /\ wire = <<>> /\ written = <<>>

\* C16: every control frame that Reader::read returns to the dispatcher has
\* at most 125 bytes of payload, and so has every control frame given to
\* write_frame.
C16_ControlPayload ==
    /\ \A i \in 1..Len(delivered) :
         is_control(delivered[i].frame.opcode) => Len(delivered[i].frame.data) <= 125
    /\ \A i \in 1..Len(written) :
         is_control(written[i].frame.opcode) => Len(written[i].frame.data) <= 125

\* A FrameError has come back from Reader::read or from a write_frame
ErrorSeen ==
    res.tag = "Err" \/ \E k \in 1..Len(written) : ~written[k].ok

\* C11: once Reader::read or a write_frame of the dispatcher has returned an
\* error the loop has ended: no frame is read, delivered or written after
\* it, and the error of a read is answered with no frame at all.
C11_ErrorEndsLoop ==
    /\ [](ErrorSeen => pc = "done")
    /\ [][ErrorSeen =>
            wire' = wire /\ delivered' = delivered /\ written' = written]_vars
    /\ [][res'.tag = "Err" => written' = written /\ delivered' = delivered]_vars

\* C11's case: the write of the Pong for the first message failed, and the
\* loop ended with one frame read
C11_Witness ==
    /\ pc = "done"
    /\ Len(wire) = 1
    /\ Len(written) = 1
    /\ written[1].frame.opcode = Pong
    /\ ~written[1].ok
\* ------------------------------------------------------ the end of the input
\* A read of the loop meets the end of the source: it decodes no frame and
\* the source has ended by the time it returns
EndMet == pc = "read" /\ eof' /\ wire' = wire /\ res'.tag = "Err"

\* The errors read_frame returns from the header bytes alone, before the
\* read_exact of the mask key and the payload (reader.rs 158-165, 191-193)
HeaderErrors ==
    {"ReservedBitsNotZero", "InvalidOpCode", "InvalidControlFin", "PingFrameTooLarge"}

\* C21 as stated: a read that meets the end of the input fails with an I/O
\* error and leaves the loop, and once the source has ended the loop
\* eventually exits.
C21_EndOfInput ==
    /\ [][EndMet /\ ~eof => res' = Err("Io") /\ pc' = "done"]_vars
    /\ [][pc = "read" /\ eof => res' = Err("Io") /\ pc' = "done"]_vars
    /\ (eof ~> pc = "done")

\* C21 amended: a read that meets the end of the input inside a frame fails
\* with an I/O error, or with the error of a rule that the header bytes it
\* has read already break, and leaves the loop; a read that starts after the
\* source has ended fails with an I/O error and leaves the loop; once the
\* source has ended the loop eventually exits.
C21_EndOfInputHeader ==
    /\ [][EndMet /\ ~eof =>
            /\ res'.err \in {"Io"} \cup HeaderErrors
            /\ pc' = "done"]_vars
    /\ [][pc = "read" /\ eof => res' = Err("Io") /\ pc' = "done"]_vars
    /\ (eof ~> pc = "done")

\* C21's case: the source has ended in the middle of a fragmented Text
\* message whose last frame stopped inside a code point; the read after it
\* has failed with an I/O error and the loop has been left
C21_Witness ==
    /\ eof
    /\ pc = "done"
    /\ res = Err("Io")
    /\ fragments.kind = "Text"
    /\ fragments.trailing # <<>>
    /\ Len(wire) = 2
    /\ written = <<>>

HeaderValue(response, name) ==
    LET tag == <<"\r", "\n">> \o name \o <<":", " ">>
        at == {i \in 1..Len(response) :
                 /\ i + Len(tag) - 1 <= Len(response)
                 /\ SubSeq(response, i, i + Len(tag) - 1) = tag}
    IN IF at = {} THEN <<>>
       ELSE LET from == (CHOOSE i \in at : \A j \in at : i <= j) + Len(tag)
                to == CHOOSE j \in from..Len(response) :
                        /\ response[j] = "\r"
                        /\ \A m \in from..(j - 1) : response[m] # "\r"
            IN SubSeq(response, from, to - 1)

SecWebSocketAccept ==
    <<"S", "e", "c", "-", "W", "e", "b", "S", "o", "c", "k", "e", "t", "-",
      "A", "c", "c", "e", "p", "t">>

\* The accept values known for the two keys and for the empty key
SampleAccept ==
    <<"s", "3", "p", "P", "L", "M", "B", "i", "T", "x", "a", "Q", "9", "k",
      "Y", "G", "z", "z", "h", "Z", "R", "b", "K", "+", "x", "O", "o", "=">>

OtherAccept ==
    <<"H", "S", "m", "r", "c", "0", "s", "M", "l", "Y", "U", "k", "A", "G",
      "m", "m", "5", "O", "P", "p", "G", "2", "H", "a", "G", "W", "k", "=">>

EmptyAccept ==
    <<"K", "f", "h", "9", "Q", "I", "s", "M", "V", "Z", "c", "l", "6", "x",
      "E", "P", "Y", "x", "P", "H", "z", "W", "8", "S", "Z", "8", "w", "=">>

\* C23: the response generate_response builds for a key k is the 101
\* response whose Sec-WebSocket-Accept is base64(SHA1(k followed by the
\* GUID)), 28 characters of the standard alphabet ending in one '='; for
\* the key dGhlIHNhbXBsZSBub25jZQ== it is s3pPLMBiTxaQ9kYGzzhZRbK+xOo=.
C23_AcceptKey ==
    pc = "responded" =>
        LET accept == HeaderValue(ret, SecWebSocketAccept)
        IN /\ SubSeq(ret, 1, 12) = <<"H", "T", "T", "P", "/", "1", ".", "1", " ", "1", "0", "1">>
           /\ SubSeq(ret, Len(ret) - 3, Len(ret)) = <<"\r", "\n", "\r", "\n">>
           /\ accept = encode(Sha1(as_bytes(arg \o WEBSOCKET_GUID)))
           /\ Len(accept) = 28
           /\ accept[28] = "="
           /\ \A i \in 1..27 : \E j \in 1..64 : StandardAlphabet[j] = accept[i]
           /\ arg = SampleKey => accept = SampleAccept
           /\ arg = OtherKey => accept = OtherAccept
           /\ arg = <<>> => accept = EmptyAccept

\* C23's case: the response for the key dGhlIHNhbXBsZSBub25jZQ== has been
\* built and carries s3pPLMBiTxaQ9kYGzzhZRbK+xOo=
C23_Witness ==
    /\ pc = "responded"
    /\ arg = SampleKey
    /\ HeaderValue(ret, SecWebSocketAccept) = SampleAccept

\* ------------------------------------------------- the decoder's errors
\* The input brings every byte its header declares
BodyWhole(input) ==
    HdrWhole(input) /\ Len(input) >= BodyAt(input) + DeclaredLen(input)

\* The first rule a frame breaks, in the order C24 gives; "" when none
FirstBroken(input, max) ==
    CASE HdrRsv(input) # 0 -> "ReservedBitsNotZero"
      [] HdrOpcode(input) \notin {0, 1, 2, 8, 9, 10} -> "InvalidOpCode"
      [] HdrOpcode(input) \in {8, 9, 10} /\ ~HdrFin(input) -> "InvalidControlFin"
      [] HdrOpcode(input) = 9 /\ DeclaredLen(input) > 125 -> "PingFrameTooLarge"
      [] HdrOpcode(input) = 8 /\ DeclaredLen(input) = 1 -> "InvalidCloseFrame"
      [] DeclaredLen(input) > max -> "FrameTooLarge"
      [] OTHER -> ""

\* The rules a frame breaks
Broken(input, max) ==
    {e \in {"ReservedBitsNotZero"} : HdrRsv(input) # 0}
      \cup {e \in {"InvalidOpCode"} : HdrOpcode(input) \notin {0, 1, 2, 8, 9, 10}}
      \cup {e \in {"InvalidControlFin"} :
               HdrOpcode(input) \in {8, 9, 10} /\ ~HdrFin(input)}
      \cup {e \in {"PingFrameTooLarge"} :
               HdrOpcode(input) = 9 /\ DeclaredLen(input) > 125}
      \cup {e \in {"InvalidCloseFrame"} :
               HdrOpcode(input) = 8 /\ DeclaredLen(input) = 1}
      \cup {e \in {"FrameTooLarge"} : DeclaredLen(input) > max}

\* C24: read_frame on a frame that breaks one or several rules reports the
\* first in the order ReservedBitsNotZero, InvalidOpCode, InvalidControlFin,
\* PingFrameTooLarge, InvalidCloseFrame, FrameTooLarge: the first four from
\* the header alone, the last two when the payload is there; a frame that
\* breaks none and is there whole is decoded.
C24_Precedence ==
    (pc = "decoded" /\ HdrWhole(arg)) =>
        LET first == FirstBroken(arg, max_payload_size)
        IN /\ first \in HeaderErrors => ret = Err(first)
           /\ (BodyWhole(arg) /\ first # "") => ret = Err(first)
           /\ (BodyWhole(arg) /\ first = "") => ret.tag = "Some"

\* C24's case: a Ping with fin clear that declares 126 bytes breaks three
\* rules for a reader with a maximum of MaxLen + 1 and is refused for the
\* first, InvalidControlFin
C24_Witness ==
    /\ pc = "decoded"
    /\ HdrWhole(arg)
    /\ Broken(arg, max_payload_size) =
         {"InvalidControlFin", "PingFrameTooLarge", "FrameTooLarge"}
    /\ ret = Err("InvalidControlFin")

\* ------------------------------------------- control frames and fragments
\* A read has decoded a control frame and given it to accumulate
ControlAccumulated ==
    /\ pc = "read"
    /\ Len(wire') = Len(wire) + 1
    /\ is_control(wire'[Len(wire')].opcode)

\* C25: accumulate on a control frame returns that frame as it was decoded
\* and leaves the fragment state as it was: the variant in progress, its
\* buffer, the stashed bytes and the recorded start opcode.
C25_ControlPassThrough ==
    [][ControlAccumulated =>
         /\ res' = OkSome(wire'[Len(wire')])
         /\ fragments'.kind = fragments.kind
         /\ fragments'.buffer = fragments.buffer
         /\ fragments'.trailing = fragments.trailing
         /\ op_code' = op_code
         /\ delivered' = Append(delivered, [frame |-> wire'[Len(wire')],
                                            at |-> Len(wire')])]_vars

\* C25's case: a Ping has been returned while a Text message is in
\* progress with buffered text and the first byte of a code point stashed
C25_Witness ==
    /\ pc = "dispatch"
    /\ res.tag = "Some"
    /\ res.frame.opcode = Ping
    /\ fragments.kind = "Text"
    /\ fragments.buffer = <<65>>
    /\ fragments.trailing # <<>>
    /\ op_code = Text

\* ------------------------------------------------ the Text fragment state
\* The reader is in use and has a Text message in progress
TextInProgress == pc \in {"read", "dispatch"} /\ fragments.kind = "Text"

\* The payloads received so far for the message in progress
Received ==
    MsgData(wire, StartIdx(wire, Len(wire) + 1), Len(wire))

\* The stashed bytes, <<>> when there are none
Stash == IF fragments.trailing = <<>> THEN <<>> ELSE fragments.trailing[1]

\* C26: while a Text message is in progress the buffer is valid UTF-8, the
\* stash when present has 1 to 3 bytes that begin a code point and stop
\* inside it, and buffer followed by stash is the concatenation of the
\* payloads received so far for the message, so that the buffer is their
\* longest valid prefix.
C26_TextFragmentState ==
    TextInProgress =>
        /\ Open(wire, Len(wire) + 1)
        /\ wire[StartIdx(wire, Len(wire) + 1)].opcode = Text
        /\ is_utf8(fragments.buffer)
        /\ fragments.trailing # <<>> =>
              /\ Len(Stash) \in 1..3
              /\ from_utf8(Stash) = Utf8Err(0, 0)
        /\ fragments.buffer \o Stash = Received
        /\ \A n \in (Len(fragments.buffer) + 1)..Len(Received) :
              ~is_utf8(SubSeq(Received, 1, n))

\* C26's case: three frames of a Text message have come, 'A' and the first
\* byte of U+20AC, then its second byte alone, then a Ping; the buffer holds
\* 'A' and the stash the two bytes
C26_Witness ==
    /\ TextInProgress
    /\ Len(wire) = 3
    /\ wire[1].opcode = Text
    /\ wire[3].opcode = Ping
    /\ fragments.buffer = <<65>>
    /\ fragments.trailing = <<(<<226, 130>>)>>
    /\ Received = <<65, 226, 130>>

\* ------------------------------------------------- what is delivered
\* C27: every frame Reader::read returns has fin set and an opcode among
\* Text, Binary, Close, Ping, Pong; a reassembled message has the opcode of
\* its start frame, Text or Binary, never the Close that Fragments::new
\* records; the match of the dispatcher never sees a Continuation, and every
\* frame given to write_frame has fin set and an opcode among Text, Binary,
\* Pong, Close.
C27_DeliveredFrames ==
    /\ \A j \in 1..Len(delivered) :
         /\ delivered[j].frame.fin
         /\ delivered[j].frame.opcode \in {Text, Binary, Close, Ping, Pong}
         /\ FinalFrame(wire[delivered[j].at]) =>
               /\ delivered[j].frame.opcode \in {Text, Binary}
               /\ Open(wire, delivered[j].at)
               /\ delivered[j].frame.opcode =
                    wire[StartIdx(wire, delivered[j].at)].opcode
    /\ pc = "dispatch" => res.tag = "Some" /\ res.frame.opcode # Continuation
    /\ fragments.kind = "None" \/ op_code \in {Text, Binary}
    /\ \A k \in 1..Len(written) :
         /\ written[k].frame.fin
         /\ written[k].frame.opcode \in {Text, Binary, Pong, Close}

\* C27's case: a Binary message of two frames has been reassembled after a
\* Ping and both have been answered, with a Pong and with the message
C27_Witness ==
    /\ Len(wire) = 3
    /\ wire[1].opcode = Ping
    /\ wire[2].opcode = Binary /\ ~wire[2].fin
    /\ FinalFrame(wire[3])
    /\ Len(delivered) = 2
    /\ delivered[2].frame.opcode = Binary
    /\ delivered[2].frame.fin
    /\ Len(written) = 2
    /\ written[1].frame.opcode = Pong
    /\ written[2].frame = delivered[2].frame
    /\ op_code = Binary

====
